---- MODULE Spec2Model ----
(***************************************************************************)
(* Verification model of the Arivara research backend: the credit service  *)
(* and its update_credits handler, the token usage tracker, the research   *)
(* run life cycle (history row, completion handler), the WebSocket message *)
(* dispatcher and the per-connection socket writers.                       *)
(*                                                                         *)
(* Each subsystem has its own variables, initial predicate, next-state     *)
(* relation and specification; a specification leaves the variables of the *)
(* other subsystems unchanged.                                             *)
(***************************************************************************)
EXTENDS Integers, Sequences, FiniteSets, TLC

VARIABLES
    \* ---- credit service (backend/services/credit_service.py) ----
    profiles,     \* ids that have a user_profiles row
    credits,      \* user_profiles.credits, per user
    ledger,       \* credit_transactions, in insertion order
    hc,           \* per handler task: the locals of _handle_update_credits
    nCalls,       \* update_credits requests accepted so far
    \* ---- token usage tracker (arivara_researcher/utils/token_tracker.py) ----
    tracker,      \* _prompt_tokens, _completion_tokens, _total_tokens, _call_count
    lock,         \* holder of TokenUsageTracker._lock, or NoThread
    adders,       \* per thread: its position in add() and its locals
    given,        \* what the add() calls made so far were given, summed
    snapshot,     \* the dict the last summary() returned
    consistent,   \* no add() so far was given a total below its own counts
    \* ---- research runs (websocket_handler.py, research_completion.py) ----
    history,      \* research_history rows by research id
    runs,         \* per research run: its position and its locals
    open,         \* whether the run's client socket is still connected
    sent,         \* per run: the messages written to its socket, in order
    user_profile, \* per run: the caller has a user_profiles row
    \* ---- message dispatch (websocket_handler.py, auth_middleware.py) ----
    websocket_users,  \* _websocket_users: the sockets with a recorded user id
    dispatch,     \* per socket: the message in handle_message and its replies
    nMessages,    \* messages received so far
    connected,    \* per socket: the client is still there
    \* ---- writers of one socket (websocket_manager.py, http_log_handler.py) ----
    active,       \* the socket is in active_connections
    message_queue,\* message_queues[websocket]
    sender,       \* position of the manager's sender task
    handler,      \* position of the task running handle_message
    log_queue,    \* WebSocketHTTPLogHandler.log_queue, as a count
    log_sender,   \* position of the HTTP log handler's _sender_loop task
    frames,       \* frames written to the socket so far
    \* ---- get_documents (websocket_handler.py, document_storage.py) ----
    owner,        \* research_history.user_id by research id, or NoOwner
    research_documents, \* research_documents rows by research id
    gd,           \* per caller: the locals of _handle_get_documents
    \* ---- chat agents (websocket_manager.py) ----
    active_connections, \* WebSocketManager.active_connections
    chat_agents,  \* chat_agents: per socket the report its agent holds
    streams,      \* per start_streaming call: its position and its locals
    completed,    \* per socket: the report of the run that returned last
    answered,     \* per socket: what the last chat message was answered from
    \* ---- nested researchers (deep_research.py, detailed_report.py) ----
    role,         \* per researcher: not constructed, top, deep_query, subtopic
    token_tracker,\* per researcher: the tracker object its token_tracker is
    counted,      \* per tracker object: its _total_tokens
    usage,        \* tokens used by all the LLM calls of the run so far
    nLLMCalls,    \* LLM calls made so far
    \* ---- report flows (basic_report.py, detailed_report.py) ----
    report_flow,  \* the report flow: its kind, position and report text
    flow_usage,   \* the counters of the flow's researcher's tracker
    nFlowCalls,   \* LLM calls made by the flow so far
    \* ---- stream_response (llm_provider/generic/base.py) ----
    sr,           \* per call of stream_response: its position and its locals
    \* ---- generate_report (actions/report_generation.py) ----
    gr,           \* the call of generate_report: its position and its locals
    \* ---- deep research (arivara_researcher/skills/deep_research.py) ----
    deep_pc,      \* the outermost deep_research call: idle, active, returned, raised
    deep_stack,   \* the frames of the nested deep_research calls, outermost first
    deep_trace,   \* per deep_research call made so far: its arguments and counts
    deep_result,  \* what the outermost call returned
    \* ---- trim_context_to_word_limit (skills/deep_research.py) ----
    tm,           \* the call of trim_context_to_word_limit: arguments and locals
    \* ---- detailed report subtopics (report_type/detailed_report) ----
    dsub,         \* a DetailedReport run: its subtopic loop and shared state
    \* ---- chat store (chat_module/app/services/supabase_service.py) ----
    chat_rows,    \* chats: per chat id, the user_id of its row, or absent
    chat_made_by, \* who created each chat id, kept when the row is deleted
    message_rows, \* messages: per chat id, how many rows carry it
    cs,           \* per caller, the SupabaseService call under way
    \* ---- HTTP-request log bridge (backend/server/http_log_handler.py) ----
    bridge,       \* the global handler: websocket, log_queue, _sender_task
    delivered,    \* per socket: the log events sent to it, in order
    socket_open,  \* per socket: the connection is still open
    nRecords,     \* log records handed to emit() so far
    \* ---- user chat (websocket_handler.py, chat_module/app/routers/chat.py) ----
    turns,        \* messages rows of one chat, in insertion order
    uc            \* per chat request: its position and its locals

creditVars == <<profiles, credits, ledger, hc, nCalls>>

trackerVars == <<tracker, lock, adders, given, snapshot, consistent>>

researchVars == <<history, runs, open, sent, user_profile>>

dispatchVars == <<websocket_users, dispatch, nMessages, connected>>

writerVars == <<active, message_queue, sender, handler, log_queue, log_sender,
                frames>>

documentVars == <<owner, research_documents, gd>>

chatVars == <<active_connections, chat_agents, streams, completed, answered>>

nestedVars == <<role, token_tracker, counted, usage, nLLMCalls>>

flowVars == <<report_flow, flow_usage, nFlowCalls>>

retryVars == <<sr>>

generateVars == <<gr>>

deepVars == <<deep_pc, deep_stack, deep_trace, deep_result>>

trimVars == <<tm>>

subtopicVars == <<dsub>>

storeVars == <<chat_rows, chat_made_by, message_rows, cs>>

bridgeVars == <<bridge, delivered, socket_open, nRecords>>

userChatVars == <<turns, uc>>

vars == <<creditVars, trackerVars, researchVars, dispatchVars, writerVars,
        documentVars, chatVars, nestedVars, flowVars, retryVars,
        generateVars, deepVars, trimVars, subtopicVars, storeVars,
        bridgeVars, userChatVars>>

(***************************************************************************)
(*                               CREDITS                                   *)
(***************************************************************************)

\* update_credits requests that may be in progress at the same time; request
\* slot t belongs to a socket authenticated as user CallerOf(t).  The profile
\* and ledger rows live in the shared database: every .execute() of the
\* service is one request to it, and the service holds no lock or
\* transaction across them, so the requests of concurrent callers interleave.
Tasks == {"t1", "t2"}

Users == {"alice", "bob"}

\* Users that start with a user_profiles row ("bob" is authenticated but has
\* no profile row yet).
InitialProfiles == {"alice"}

CallerOf(t) == IF t = "t1" THEN "alice" ELSE "bob"

\* The balance alice's profile starts with.
InitialCredits == 2

\* The user_id field of an update_credits request: absent, or a user id.
NoUser == "none"

TargetIds == {NoUser, "alice"}

\* The amount field of a request (no validation in the handler: any integer).
Amounts == {-1, InitialCredits, InitialCredits + 1}

Operations == {"set", "add", "subtract", "multiply"}

\* Bound on the update_credits requests of one run of the model.
MaxCalls == 2

\* get_credit_balance: the credits column of the profile row, 0 without a row.
get_credit_balance(u) == IF u \in profiles THEN credits[u] ELSE 0

Abs(x) == IF x < 0 THEN -x ELSE x

Min(a, b) == IF a < b THEN a ELSE b

Max(a, b) == IF a > b THEN a ELSE b

IdleCall ==
    [pc |-> "idle", id |-> 0, target |-> NoUser, operation |-> "none", amount |-> 0,
     current_balance |-> 0, svc_balance |-> 0, new_balance |-> 0,
     success |-> FALSE, changed |-> FALSE, stored |-> 0,
     reply |-> [type |-> "none", success |-> FALSE, previous_balance |-> 0,
                new_balance |-> 0, change |-> 0]]

InitCredit ==
    /\ profiles = InitialProfiles
    /\ credits = [u \in Users |-> IF u \in InitialProfiles THEN InitialCredits ELSE 0]
    /\ ledger = <<>>
    /\ hc = [t \in Tasks |-> IdleCall]
    /\ nCalls = 0

\* Mutant of DeductRefuses: the guard left out.
DeductNeverRefuses(current_balance, amount) == FALSE

\* deduct_credits, the guard: refuse when the balance read is below the amount.
DeductRefuses(current_balance, amount) == current_balance < amount

\* The balance each service operation writes to the profile row.
DeductNewBalance(current_balance, amount) == current_balance - amount

AddNewBalance(current_balance, amount) == current_balance + amount

SetNewBalance(current_balance, amount) == amount

ServiceNewBalance(operation, current_balance, amount) ==
    CASE operation = "subtract" -> DeductNewBalance(current_balance, amount)
      [] operation = "add" -> AddNewBalance(current_balance, amount)
      [] OTHER -> SetNewBalance(current_balance, amount)

\* The ledger row each service operation builds (CreditTransactionCreate).
\* Mutant of DeductRow: balance_after taken from the balance before the debit.
DeductRowStale(u, amount, new_balance) ==
    [user |-> u, amount |-> amount, transaction_type |-> "debit",
     balance_after |-> new_balance + amount]

DeductRow(u, amount, new_balance) ==
    [user |-> u, amount |-> amount, transaction_type |-> "debit",
     balance_after |-> new_balance]

AddRow(u, amount, new_balance) ==
    [user |-> u, amount |-> amount, transaction_type |-> "credit",
     balance_after |-> new_balance]

SetRow(u, amount, current_balance) ==
    [user |-> u, amount |-> Abs(amount - current_balance),
     transaction_type |-> IF amount - current_balance >= 0 THEN "credit" ELSE "debit",
     balance_after |-> amount]

ServiceRow(operation, u, amount, current_balance, new_balance) ==
    CASE operation = "subtract" -> DeductRow(u, amount, new_balance)
      [] operation = "add" -> AddRow(u, amount, new_balance)
      [] OTHER -> SetRow(u, amount, current_balance)

\* set_credits writes a row only when the target differs from the balance read.
SetWritesRow(current_balance, amount) == amount - current_balance # 0

\* _handle_update_credits, the signed change it reports.
CreditChange(operation, amount, current_balance) ==
    CASE operation = "set" -> amount - current_balance
      [] operation = "add" -> amount
      [] OTHER -> -Min(amount, current_balance)

\* The request arrives on an authenticated socket: the handler takes its
\* parameters and resolves the target user (default: the caller).
HandleUpdateCredits(t) ==
    /\ hc[t].pc = "idle"
    /\ nCalls < MaxCalls
    /\ \E tid \in TargetIds, op \in Operations, amt \in Amounts :
          hc' = [hc EXCEPT ![t] =
                    [IdleCall EXCEPT !.pc = "handler_read", !.id = nCalls + 1,
                                     !.target = IF tid = NoUser THEN CallerOf(t) ELSE tid,
                                     !.operation = op, !.amount = amt]]
    /\ nCalls' = nCalls + 1
    /\ UNCHANGED <<profiles, credits, ledger>>

\* The handler reads the target's balance, then dispatches on the operation.
HandlerReadBalance(t) ==
    /\ hc[t].pc = "handler_read"
    /\ LET bal == get_credit_balance(hc[t].target) IN
       IF hc[t].operation \in {"set", "add", "subtract"}
       THEN hc' = [hc EXCEPT ![t].current_balance = bal, ![t].pc = "service_read"]
       ELSE hc' = [hc EXCEPT ![t].current_balance = bal, ![t].pc = "replied",
                             ![t].reply = [IdleCall.reply EXCEPT !.type = "INVALID_OPERATION"]]
    /\ UNCHANGED <<profiles, credits, ledger, nCalls>>

\* The service operation reads the balance itself; deduct_credits may refuse.
ServiceReadBalance(t) ==
    /\ hc[t].pc = "service_read"
    /\ LET c == hc[t]
           bal == get_credit_balance(c.target) IN
       IF c.operation = "subtract" /\ DeductRefuses(bal, c.amount)
       THEN hc' = [hc EXCEPT ![t].svc_balance = bal, ![t].success = FALSE,
                             ![t].pc = "handler_reply"]
       ELSE hc' = [hc EXCEPT ![t].svc_balance = bal,
                             ![t].new_balance = ServiceNewBalance(c.operation, bal, c.amount),
                             ![t].pc = "service_update"]
    /\ UNCHANGED <<profiles, credits, ledger, nCalls>>

\* The update of user_profiles.credits.  Without a profile row the update
\* touches nothing; set_credits then upserts a row that lacks the NOT NULL
\* email column, which the database rejects (the call returns False).
ServiceUpdateProfile(t) ==
    /\ hc[t].pc = "service_update"
    /\ LET c == hc[t]
           has == c.target \in profiles
           after == IF has THEN c.new_balance ELSE 0 IN
       /\ credits' = IF has THEN [credits EXCEPT ![c.target] = c.new_balance] ELSE credits
       /\ hc' = [hc EXCEPT
                   ![t].changed = (after # get_credit_balance(c.target)),
                   ![t].stored = after,
                   ![t].success = (has /\ c.operation = "set"
                                       /\ ~SetWritesRow(c.svc_balance, c.amount)),
                   ![t].pc = IF c.operation = "set"
                                  /\ (~has \/ ~SetWritesRow(c.svc_balance, c.amount))
                             THEN "handler_reply" ELSE "service_insert"]
    /\ UNCHANGED <<profiles, ledger, nCalls>>

\* The insert into credit_transactions; the row's user must have a profile
\* (foreign key), else the insert raises and the call returns False.
ServiceInsertRow(t) ==
    /\ hc[t].pc = "service_insert"
    /\ LET c == hc[t]
           row == ServiceRow(c.operation, c.target, c.amount, c.svc_balance, c.new_balance) IN
       IF c.target \in profiles
       THEN /\ ledger' = Append(ledger, [row |-> row, call |-> c.id, stored |-> c.stored])
            /\ hc' = [hc EXCEPT ![t].success = TRUE, ![t].pc = "handler_reply"]
       ELSE /\ ledger' = ledger
            /\ hc' = [hc EXCEPT ![t].success = FALSE, ![t].pc = "handler_reply"]
    /\ UNCHANGED <<profiles, credits, nCalls>>

\* Back in the handler: on success it re-reads the balance and reports the
\* previous balance, the new balance and the signed change.
HandlerReply(t) ==
    /\ hc[t].pc = "handler_reply"
    /\ LET c == hc[t] IN
       hc' = [hc EXCEPT ![t].pc = "replied",
                 ![t].reply =
                    IF c.success
                    THEN [type |-> "update_credits_response", success |-> TRUE,
                          previous_balance |-> c.current_balance,
                          new_balance |-> get_credit_balance(c.target),
                          change |-> CreditChange(c.operation, c.amount, c.current_balance)]
                    ELSE [IdleCall.reply EXCEPT !.type = "update_credits_response"]]
    /\ UNCHANGED <<profiles, credits, ledger, nCalls>>

\* The handler returns; the task is free for the next request.
HandlerReturn(t) ==
    /\ hc[t].pc = "replied"
    /\ hc' = [hc EXCEPT ![t] = IdleCall]
    /\ UNCHANGED <<profiles, credits, ledger, nCalls>>

\* The other subsystems stand still.
CreditFrame == UNCHANGED <<trackerVars, researchVars, dispatchVars,
    writerVars, documentVars, chatVars, nestedVars, flowVars, retryVars,
    generateVars, deepVars, trimVars, subtopicVars, storeVars, bridgeVars,
    userChatVars>>

NextCredit ==
    \E t \in Tasks :
        \/ HandleUpdateCredits(t) /\ CreditFrame
        \/ HandlerReadBalance(t) /\ CreditFrame
        \/ ServiceReadBalance(t) /\ CreditFrame
        \/ ServiceUpdateProfile(t) /\ CreditFrame
        \/ ServiceInsertRow(t) /\ CreditFrame
        \/ HandlerReply(t) /\ CreditFrame
        \/ HandlerReturn(t) /\ CreditFrame

(***************************************************************************)
(*                        CLAIMS: CREDIT SERVICE                           *)
(***************************************************************************)

\* The ledger rows written by call number id.
RowsOfCall(id) == {i \in 1..Len(ledger) : ledger[i].call = id}

\* The service call of task t has returned to the handler.
ServiceReturned(t) == hc[t].pc \in {"handler_reply", "replied"} /\ hc[t].operation \in {"set", "add", "subtract"}

\* C2: update_credits with operation "subtract" and an amount above the
\* target's current balance ends with a new balance of exactly 0 and reports
\* change = -previous balance (not -amount).
C2_SubtractClampsToZero ==
    \A t \in Tasks :
        (/\ hc[t].pc = "replied"
         /\ hc[t].operation = "subtract"
         /\ hc[t].amount > hc[t].current_balance
         /\ hc[t].amount > hc[t].svc_balance)
        => /\ hc[t].reply.success
           /\ hc[t].reply.new_balance = 0
           /\ hc[t].reply.change = -hc[t].current_balance

\* C8: every ledger row's balance_after equals the user's stored balance as
\* it was immediately after the writing operation's own balance update took
\* effect, also when operations on the same user interleave.
C8_BalanceAfterIsStoredBalance ==
    \A i \in 1..Len(ledger) : ledger[i].row.balance_after = ledger[i].stored

\* C8 witness: two add_credits calls on one user interleaved (both read the
\* same balance), each with its row written.
C8_Witness ==
    /\ Len(ledger) = 2
    /\ ledger[1].row.user = ledger[2].row.user
    /\ ledger[1].call # ledger[2].call
    /\ ledger[1].row.transaction_type = "credit" /\ ledger[1].row.amount = InitialCredits
    /\ ledger[2].row.transaction_type = "credit" /\ ledger[2].row.amount = InitialCredits
    /\ ledger[1].row.balance_after = ledger[2].row.balance_after

C10_GuardedDebit ==
    /\ [](\A t \in Tasks :
            (/\ ServiceReturned(t)
             /\ hc[t].operation = "subtract"
             /\ hc[t].amount > hc[t].svc_balance)
            => /\ ~hc[t].success
               /\ ~hc[t].changed
               /\ RowsOfCall(hc[t].id) = {})
    /\ [][\A t \in Tasks :
            (/\ hc[t].pc = "service_update"
             /\ hc'[t].pc # "service_update"
             /\ hc[t].operation = "subtract")
            => credits'[hc[t].target] >= 0]_vars

\* C10 witness: a subtract above the balance of an existing profile came back
\* refused.
C10_Witness ==
    \E t \in Tasks :
        /\ hc[t].pc = "replied"
        /\ hc[t].operation = "subtract"
        /\ hc[t].target \in profiles
        /\ hc[t].amount > hc[t].svc_balance
        /\ hc[t].reply.type = "update_credits_response"
        /\ ~hc[t].reply.success
        /\ credits[hc[t].target] = InitialCredits

\* C11: every ledger row has a non-negative amount; the direction of the
\* change is carried by transaction_type alone (debit or credit).
C11_LedgerAmountsNonNegative ==
    \A i \in 1..Len(ledger) :
        /\ ledger[i].row.amount >= 0
        /\ ledger[i].row.transaction_type \in {"debit", "credit"}

\* What one service call makes of balance bal when nothing runs beside it:
\* the balance it stores, or nothing when deduct_credits refuses.
SerialResults(bal, c) ==
    IF c.operation = "subtract" /\ DeductRefuses(bal, c.amount) THEN {}
    ELSE {ServiceNewBalance(c.operation, bal, c.amount)}

\* The balances two calls leave when applied one at a time, in either order,
\* each succeeding.
SerialOutcomes(bal, c1, c2) ==
    UNION {SerialResults(b, c2) : b \in SerialResults(bal, c1)}
    \cup UNION {SerialResults(b, c1) : b \in SerialResults(bal, c2)}

\* The signed change a ledger row stands for.
RowDelta(row) ==
    IF row.transaction_type = "credit" THEN row.amount ELSE -row.amount

\* What the first n ledger rows of user u add up to.
RECURSIVE LedgerSum(_, _)
LedgerSum(u, n) ==
    IF n = 0 THEN 0
    ELSE LedgerSum(u, n - 1) +
         (IF ledger[n].row.user = u THEN RowDelta(ledger[n].row) ELSE 0)

\* The two tasks each made one call on user u, the only calls so far, and
\* both were answered with success.
BothSucceededOn(u) ==
    /\ nCalls = Cardinality(Tasks)
    /\ \A t \in Tasks :
          /\ hc[t].pc = "replied"
          /\ hc[t].target = u
          /\ hc[t].reply.success

C33_NoForeignCreditChange ==
    [][\A t \in Tasks :
          (/\ hc[t].pc # "idle"
           /\ hc[t].target # CallerOf(t)
           /\ hc'[t] # hc[t])
          => (credits' = credits /\ ledger' = ledger)]_vars


(***************************************************************************)
(*                         TOKEN USAGE TRACKER                             *)
(***************************************************************************)

\* Threads (a researcher and its nested sub-researchers) sharing one tracker.
Threads == {"th1", "th2"}

NoThread == "none"

\* Bound on the add() calls of one run of the model.
MaxAdds == 2

\* What one LLM call reports: prompt and completion tokens, and a separate
\* total or none (total_tokens=None).
PromptValues == {1, 2}

CompletionValues == {0, 2}

NoTotal == [has_total |-> FALSE, total_tokens |-> 0]

TotalValues ==
    {NoTotal, [has_total |-> TRUE, total_tokens |-> 1],
     [has_total |-> TRUE, total_tokens |-> 4]}

IdleAdder ==
    [pc |-> "idle", prompt_tokens |-> 0, completion_tokens |-> 0,
     total_tokens |-> 0, has_total |-> FALSE, reg |-> 0]

\* The counters of a new tracker, and after reset().
ZeroTracker ==
    [prompt_tokens |-> 0, completion_tokens |-> 0, total_tokens |-> 0,
     call_count |-> 0]

ZeroGiven == [prompt_tokens |-> 0, completion_tokens |-> 0, call_count |-> 0]

ZeroSnapshot ==
    [prompt_tokens |-> 0, completion_tokens |-> 0,
     total_tokens |-> 0, call_count |-> 0,
     total_prompt_tokens |-> 0, total_completion_tokens |-> 0]

InitTracker ==
    /\ tracker = ZeroTracker
    /\ lock = NoThread
    /\ adders = [th \in Threads |-> IdleAdder]
    /\ given = ZeroGiven
    /\ snapshot = ZeroSnapshot
    /\ consistent = TRUE

\* Mutant of LockFree: add() does not wait for the lock.
LockNeverWaits == TRUE

\* threading.Lock: free when no thread holds it.
LockFree == lock = NoThread

\* add(), "ensure non-negative values": max(0, int(x or 0)).
NonNegative(x) == Max(0, x)

\* The mutant of ResolveTotal: a call without a total counts 0 for it.
ResolveTotalZero(prompt_tokens, completion_tokens, has_total, total_tokens) ==
    IF has_total THEN NonNegative(total_tokens) ELSE 0

\* add(), "calculate total if not provided".
ResolveTotal(prompt_tokens, completion_tokens, has_total, total_tokens) ==
    IF has_total THEN NonNegative(total_tokens)
    ELSE NonNegative(prompt_tokens) + NonNegative(completion_tokens)

\* summary(): the snapshot dict, with the legacy aliases.
summary ==
    [prompt_tokens |-> tracker.prompt_tokens,
     completion_tokens |-> tracker.completion_tokens,
     total_tokens |-> tracker.total_tokens,
     call_count |-> tracker.call_count,
     total_prompt_tokens |-> tracker.prompt_tokens,
     total_completion_tokens |-> tracker.completion_tokens]

\* A thread calls add(prompt_tokens, completion_tokens, total_tokens) and
\* reaches "with self._lock".
AddCall(th) ==
    /\ adders[th].pc = "idle"
    /\ given.call_count < MaxAdds
    /\ \E p \in PromptValues, c \in CompletionValues, tot \in TotalValues :
          /\ adders' = [adders EXCEPT ![th] =
                [pc |-> "acquire",
                 prompt_tokens |-> NonNegative(p),
                 completion_tokens |-> NonNegative(c),
                 total_tokens |-> ResolveTotal(p, c, tot.has_total, tot.total_tokens),
                 has_total |-> tot.has_total,
                 reg |-> 0]]
          /\ given' = [prompt_tokens |-> given.prompt_tokens + p,
                       completion_tokens |-> given.completion_tokens + c,
                       call_count |-> given.call_count + 1]
          /\ consistent' = (consistent /\ (tot.has_total =>
                                                tot.total_tokens >= Max(p, c)))
    /\ UNCHANGED <<tracker, lock, snapshot>>

\* The thread takes the lock.
AddAcquire(th) ==
    /\ adders[th].pc = "acquire"
    /\ LockFree
    /\ lock' = th
    /\ adders' = [adders EXCEPT ![th].pc = "load_prompt"]
    /\ UNCHANGED <<tracker, given, snapshot, consistent>>

\* "self._x += v" is a load of the attribute, an add and a store.
AddLoad(th, at, field) ==
    /\ adders[th].pc = at
    /\ adders' = [adders EXCEPT ![th].reg = tracker[field],
                                ![th].pc = IF at = "load_prompt" THEN "store_prompt"
                                           ELSE IF at = "load_completion" THEN "store_completion"
                                           ELSE IF at = "load_total" THEN "store_total"
                                           ELSE "store_count"]
    /\ UNCHANGED <<tracker, lock, given, snapshot, consistent>>

AddStore(th, at, field, amount, next) ==
    /\ adders[th].pc = at
    /\ tracker' = [tracker EXCEPT ![field] = adders[th].reg + amount]
    /\ adders' = [adders EXCEPT ![th].pc = next]
    /\ UNCHANGED <<lock, given, snapshot, consistent>>

AddPrompt(th) ==
    \/ AddLoad(th, "load_prompt", "prompt_tokens")
    \/ AddStore(th, "store_prompt", "prompt_tokens", adders[th].prompt_tokens,
                "load_completion")

AddCompletion(th) ==
    \/ AddLoad(th, "load_completion", "completion_tokens")
    \/ AddStore(th, "store_completion", "completion_tokens",
                adders[th].completion_tokens, "load_total")

AddTotal(th) ==
    \/ AddLoad(th, "load_total", "total_tokens")
    \/ AddStore(th, "store_total", "total_tokens", adders[th].total_tokens,
                "load_count")

AddCount(th) ==
    \/ AddLoad(th, "load_count", "call_count")
    \/ AddStore(th, "store_count", "call_count", 1, "release")

\* Leaving the "with" block releases the lock; add() returns.
AddRelease(th) ==
    /\ adders[th].pc = "release"
    /\ lock' = NoThread
    /\ adders' = [adders EXCEPT ![th] = IdleAdder]
    /\ UNCHANGED <<tracker, given, snapshot, consistent>>

\* summary(): takes the lock, builds the dict, releases the lock.
TakeSummary ==
    /\ LockFree
    /\ snapshot' = summary
    /\ snapshot' # snapshot
    /\ UNCHANGED <<tracker, lock, adders, given, consistent>>

\* The add() calls that wait for the lock: they will count after a reset().
Waiting == {th \in Threads : adders[th].pc = "acquire"}

RECURSIVE SumWaiting(_, _)
SumWaiting(S, field) ==
    IF S = {} THEN 0
    ELSE LET th == CHOOSE x \in S : TRUE
         IN  adders[th][field] + SumWaiting(S \ {th}, field)

\* reset(): under the lock, all counters back to 0 "for a new report run";
\* what the calls counted so far were given is forgotten with them.
reset ==
    /\ LockFree
    /\ given.call_count > 0
    /\ tracker' = ZeroTracker
    /\ given' = [prompt_tokens |-> SumWaiting(Waiting, "prompt_tokens"),
                 completion_tokens |-> SumWaiting(Waiting, "completion_tokens"),
                 call_count |-> Cardinality(Waiting)]
    /\ snapshot' = ZeroSnapshot
    /\ consistent' =
          \A th \in Waiting :
              adders[th].has_total =>
                  adders[th].total_tokens >=
                      Max(adders[th].prompt_tokens, adders[th].completion_tokens)
    /\ UNCHANGED <<lock, adders>>

\* The other subsystems stand still.
TrackerFrame == UNCHANGED <<creditVars, researchVars, dispatchVars,
    writerVars, documentVars, chatVars, nestedVars, flowVars, retryVars,
    generateVars, deepVars, trimVars, subtopicVars, storeVars, bridgeVars,
    userChatVars>>

NextTracker ==
    \/ \E th \in Threads :
          \/ AddCall(th) /\ TrackerFrame
          \/ AddAcquire(th) /\ TrackerFrame
          \/ AddPrompt(th) /\ TrackerFrame
          \/ AddCompletion(th) /\ TrackerFrame
          \/ AddTotal(th) /\ TrackerFrame
          \/ AddCount(th) /\ TrackerFrame
          \/ AddRelease(th) /\ TrackerFrame
    \/ TakeSummary /\ TrackerFrame
    \/ reset /\ TrackerFrame

(***************************************************************************)
(*                     CLAIMS: TOKEN USAGE TRACKER                         *)
(***************************************************************************)

\* No add() call is in progress.
NoAddInProgress == \A th \in Threads : adders[th].pc = "idle"

\* C5: for add() calls made concurrently on one tracker with pairs
\* (p_i, c_i), once all have returned summary() has prompt_tokens = sum p_i,
\* completion_tokens = sum c_i and call_count = number of calls, whatever the
\* interleaving; and every summary() returned counts whole calls only.
C5_SummaryIsSumOfAdds ==
    /\ NoAddInProgress =>
          /\ summary.prompt_tokens = given.prompt_tokens
          /\ summary.completion_tokens = given.completion_tokens
          /\ summary.call_count = given.call_count
    /\ snapshot.call_count <= given.call_count
    /\ snapshot.prompt_tokens <= given.prompt_tokens
    /\ (snapshot.call_count = given.call_count) =>
          /\ snapshot.prompt_tokens = given.prompt_tokens
          /\ snapshot.completion_tokens = given.completion_tokens

\* C5 witness: the calls of two threads overlapped (one waited for the lock
\* the other held) and all MaxAdds calls have returned with non-zero sums.
C5_Witness ==
    /\ NoAddInProgress
    /\ given.call_count >= 2
    /\ given.prompt_tokens > 0
    /\ given.completion_tokens > 0
    /\ snapshot.call_count = given.call_count


\* total_tokens >= max(prompt_tokens, completion_tokens) in the counters a
\* reader can get (readers take the lock), after the step.
TotalCoversParts ==
    LockFree' =>
        tracker'.total_tokens >=
            Max(tracker'.prompt_tokens, tracker'.completion_tokens)

\* The step in which a call that reported no separate total adds to
\* _total_tokens adds its prompt + completion.
TotalGrowsByParts ==
    \A th \in Threads :
        (/\ adders[th].pc = "store_total"
         /\ adders'[th].pc = "load_count"
         /\ ~ adders[th].has_total) =>
            tracker'.total_tokens =
                tracker.total_tokens + adders[th].prompt_tokens
                                     + adders[th].completion_tokens

\* reset() begins a new run: counted calls are forgotten.
NewRun == given'.call_count < given.call_count

\* Within a run no counter decreases.
NoCounterDecreases ==
    ~ NewRun =>
        \A field \in {"prompt_tokens", "completion_tokens", "total_tokens",
                      "call_count"} :
            tracker'[field] >= tracker[field]

\* C18 as stated: throughout a run's lifetime, after any sequence of tracker
\* updates, total_tokens >= max(prompt_tokens, completion_tokens),
\* total_tokens grows by prompt + completion for every call that reports no
\* separate total, and no counter ever decreases.
C18_TrackerInvariants ==
    [][TotalCoversParts /\ TotalGrowsByParts /\ NoCounterDecreases]_vars

\* C18 amended: the same, with total_tokens >= max(prompt_tokens,
\* completion_tokens) for runs in which no call reported a separate total
\* below its own prompt or completion count.
C18_TrackerInvariantsForConsistentTotals ==
    [][/\ consistent' => TotalCoversParts
       /\ TotalGrowsByParts
       /\ NoCounterDecreases]_vars

\* C18 witness: after a reset, three calls have been counted, none with a
\* total below its counts and one with a separate total above their sum.
C18_Witness ==
    /\ NoAddInProgress
    /\ consistent
    /\ snapshot = ZeroSnapshot
    /\ tracker.call_count = MaxAdds
    /\ tracker.total_tokens > tracker.prompt_tokens + tracker.completion_tokens
    /\ tracker.completion_tokens > 0

(***************************************************************************)
(*                            RESEARCH RUNS                                *)
(* start_research creates the history row and awaits the report flow; the  *)
(* completion handler runs once the report text is final.  Each run has    *)
(* its own client socket, which the client may close at any moment; a      *)
(* send_json on a closed socket raises.                                    *)
(***************************************************************************)

\* Research runs; a run's name is also its research_id.
Runs == {"r1", "r2"}

\* A report is either text or empty.
Reports == {"text", "empty"}

\* The DOCX and the PDF rendering of one report.
MaxDocuments == 2

\* token_usage=None.
NoUsage ==
    [available |-> FALSE, prompt_tokens |-> 0, total_prompt_tokens |-> 0,
     completion_tokens |-> 0, total_completion_tokens |-> 0,
     total_tokens |-> 0, call_count |-> 0]

\* A usage dict; a key that is absent reads as 0 (dict.get(key, 0)).
Usage(p, tp, c, tc, t, n) ==
    [available |-> TRUE, prompt_tokens |-> p, total_prompt_tokens |-> tp,
     completion_tokens |-> c, total_completion_tokens |-> tc,
     total_tokens |-> t, call_count |-> n]

\* What the report flow hands over: nothing, a summary() of an unused
\* tracker, a summary() after two calls, a dict with the legacy keys only and
\* no total.
TokenUsages ==
    {NoUsage, Usage(0, 0, 0, 0, 0, 0), Usage(3, 3, 2, 2, 5, 2),
     Usage(0, 3, 0, 2, 0, 2)}

IdleRun ==
    [pc |-> "idle", report |-> "empty", token_usage |-> NoUsage,
     input_usage |-> NoUsage, documents |-> 0, rate_limit |-> FALSE,
     flow |-> "none", error |-> "none"]

\* credits_used=None.
NoCredits == -1

NoRow ==
    [status |-> "none", completed_at |-> FALSE, token_usage |-> NoUsage,
     credits_used |-> 0]

InitResearch ==
    /\ history = [r \in Runs |-> NoRow]
    /\ runs = [r \in Runs |-> IdleRun]
    /\ open = [r \in Runs |-> TRUE]
    /\ sent = [r \in Runs |-> <<>>]
    /\ user_profile \in [Runs -> BOOLEAN]

\* update_research_status: writes the status whatever the row's status is;
\* completed_at is stamped for completed and failed; credits_used and
\* token_usage are written when one is passed.
update_research_status(row, status, credits_used, token_usage) ==
    [status |-> status,
     credits_used |-> IF credits_used # NoCredits THEN credits_used
                      ELSE row.credits_used,
     completed_at |-> IF status \in {"completed", "failed"} THEN TRUE
                      ELSE row.completed_at,
     token_usage |-> IF token_usage.available THEN token_usage
                     ELSE row.token_usage]

\* Python's "a or b" on two counts.
Or(a, b) == IF a # 0 THEN a ELSE b

\* The mutant of token_usage_response: the usage dict is passed through.
token_usage_passthrough(token_usage) ==
    [present |-> token_usage.available,
     total_prompt_tokens |-> token_usage.total_prompt_tokens,
     total_completion_tokens |-> token_usage.total_completion_tokens,
     total_tokens |-> token_usage.total_tokens,
     call_count |-> token_usage.call_count]

ZeroUsage ==
    [present |-> TRUE, total_prompt_tokens |-> 0, total_completion_tokens |-> 0,
     total_tokens |-> 0, call_count |-> 0]

\* "Prepare token usage for response" and "add token usage to response":
\* both key conventions, the total computed when it is 0, and the zeroed
\* dict when there is no usage or its total is 0.
token_usage_response(token_usage) ==
    LET prompt_tokens == Or(token_usage.prompt_tokens, token_usage.total_prompt_tokens)
        completion_tokens == Or(token_usage.completion_tokens,
                                token_usage.total_completion_tokens)
        total_tokens ==
            IF token_usage.total_tokens = 0
               /\ (prompt_tokens > 0 \/ completion_tokens > 0)
            THEN prompt_tokens + completion_tokens
            ELSE token_usage.total_tokens
    IN  IF token_usage.available /\ total_tokens > 0
        THEN [present |-> TRUE, total_prompt_tokens |-> prompt_tokens,
              total_completion_tokens |-> completion_tokens,
              total_tokens |-> total_tokens,
              call_count |-> token_usage.call_count]
        ELSE ZeroUsage

completion_message(r, documents, token_usage) ==
    [type |-> "research_complete", research_id |-> r, documents |-> documents,
     token_usage |-> token_usage_response(token_usage)]

OtherMessage(type, r) ==
    [type |-> type, research_id |-> r, documents |-> 0,
     token_usage |-> [present |-> FALSE, total_prompt_tokens |-> 0,
                      total_completion_tokens |-> 0, total_tokens |-> 0,
                      call_count |-> 0]]

\* The mutant of entry_data: the row is inserted as completed.
entry_data_completed(credits_used) ==
    [status |-> "completed", completed_at |-> FALSE, token_usage |-> NoUsage,
     credits_used |-> credits_used]

\* create_research_entry's entry_data: status pending and the credits_used
\* it was passed.
entry_data(credits_used) ==
    [status |-> "pending", completed_at |-> FALSE, token_usage |-> NoUsage,
     credits_used |-> credits_used]

\* An error reply of _handle_start_research ends the handler; on a closed
\* socket the send raises, the RESEARCH_FAILED reply of except Exception
\* raises as well, and nothing is written.
StartError(r, code) ==
    /\ runs' = [runs EXCEPT ![r].pc = "done", ![r].error = code]
    /\ sent' = IF open[r]
               THEN [sent EXCEPT ![r] = Append(@, OtherMessage(code, r))]
               ELSE sent

\* "Ensure user profile exists": get_user_profile (None when there is no row
\* or the query fails), else ensure_user_profile, which inserts the row with
\* a placeholder email or fails, else get_user_profile again; without a
\* profile the handler answers USER_PROFILE_MISSING and returns.
EnsureProfile(r, next) ==
    \E seen \in BOOLEAN, created \in BOOLEAN :
        LET materialized == IF user_profile[r] THEN seen ELSE created
        IN  /\ user_profile' = [user_profile EXCEPT ![r] = @ \/ created]
            /\ IF materialized
               THEN /\ runs' = [runs EXCEPT ![r].pc = next]
                    /\ sent' = sent
               ELSE StartError(r, "USER_PROFILE_MISSING")

\* _handle_start_research for an authenticated user with a query, up to the
\* first check of the profile.
StartResearch(r) ==
    /\ runs[r].pc = "idle"
    /\ EnsureProfile(r, "verify_profile")
    /\ UNCHANGED <<history, open>>

\* The second check of the profile ("Final check").
VerifyProfile(r) ==
    /\ runs[r].pc = "verify_profile"
    /\ EnsureProfile(r, "create_entry")
    /\ UNCHANGED <<history, open>>

\* create_research_entry(user_id, query, report_type, 0) inserts the row,
\* which needs the profile row for its foreign key, or fails; on failure the
\* handler looks the profile up once more to choose its error reply and
\* returns.
CreateResearchEntry(r) ==
    /\ runs[r].pc = "create_entry"
    /\ \E created \in BOOLEAN, seen \in BOOLEAN :
          IF created /\ user_profile[r]
          THEN /\ history' = [history EXCEPT ![r] = entry_data(0)]
               /\ runs' = [runs EXCEPT ![r].pc = "progress"]
               /\ sent' = sent
          ELSE /\ history' = history
               /\ StartError(r, IF user_profile[r] /\ seen
                                THEN "RESEARCH_CREATION_FAILED"
                                ELSE "USER_PROFILE_MISSING")
    /\ UNCHANGED <<open, user_profile>>

\* The research_progress acknowledgement; on a closed socket the send raises
\* and the handler ends without starting the report flow.
SendProgress(r) ==
    /\ runs[r].pc = "progress"
    /\ IF open[r]
       THEN /\ sent' = [sent EXCEPT ![r] =
                          Append(@, OtherMessage("research_progress", r))]
            /\ runs' = [runs EXCEPT ![r].pc = "running"]
       ELSE /\ sent' = sent
            /\ runs' = [runs EXCEPT ![r].pc = "done"]
    /\ UNCHANGED <<history, open, user_profile>>

\* handle_start_command: the report flow returns a report (empty when report
\* generation failed) with its token usage and the completion handler is
\* invoked once with them, or the flow raises.
handle_start_command(r) ==
    /\ runs[r].pc = "running"
    /\ \/ \E report \in Reports, token_usage \in TokenUsages :
             runs' = [runs EXCEPT ![r].pc = "completion",
                                  ![r].flow = "returned",
                                  ![r].report = report,
                                  ![r].input_usage = token_usage,
                                  ![r].token_usage = token_usage]
       \/ \E rate_limit \in BOOLEAN :
             runs' = [runs EXCEPT ![r].pc = "tracking_except",
                                  ![r].flow = "raised",
                                  ![r].rate_limit = rate_limit]
    /\ UNCHANGED <<history, open, sent, user_profile>>

\* _handle_research_with_tracking, except Exception: a RATE_LIMIT_ERROR
\* message for rate-limit errors (a failing send is swallowed), then the
\* row is updated to failed.
ResearchFailed(r) ==
    /\ runs[r].pc = "tracking_except"
    /\ sent' = IF runs[r].rate_limit /\ open[r]
               THEN [sent EXCEPT ![r] = Append(@, OtherMessage("RATE_LIMIT_ERROR", r))]
               ELSE sent
    /\ history' = [history EXCEPT ![r] =
                      update_research_status(@, "failed", NoCredits, NoUsage)]
    /\ runs' = [runs EXCEPT ![r].pc = "done"]
    /\ UNCHANGED <<open, user_profile>>

\* _handle_research_completion, document files: none for an empty report;
\* otherwise each of the two uploads may fail and is skipped.
CompletionDocuments(r) ==
    /\ runs[r].pc = "completion"
    /\ \E documents \in 0..MaxDocuments :
          /\ runs[r].report = "empty" => documents = 0
          /\ runs' = [runs EXCEPT ![r].pc = "completion_load",
                                  ![r].documents = documents]
    /\ UNCHANGED <<history, open, sent, user_profile>>

\* get_research_by_id: the row's token_usage stands in when none was passed.
CompletionLoadRow(r) ==
    /\ runs[r].pc = "completion_load"
    /\ runs' = [runs EXCEPT ![r].pc = "completion_update",
                            ![r].token_usage =
                                IF ~ runs[r].token_usage.available
                                   /\ history[r].status # "none"
                                THEN history[r].token_usage
                                ELSE @]
    /\ UNCHANGED <<history, open, sent, user_profile>>

\* "Update research status to completed".
CompletionUpdateStatus(r) ==
    /\ runs[r].pc = "completion_update"
    /\ history' = [history EXCEPT ![r] =
                      update_research_status(@, "completed", 0, runs[r].token_usage)]
    /\ runs' = [runs EXCEPT ![r].pc = "completion_send"]
    /\ UNCHANGED <<open, sent, user_profile>>

\* The single send of the consolidated message; on a closed socket it raises
\* into the handler's except block.
CompletionSend(r) ==
    /\ runs[r].pc = "completion_send"
    /\ IF open[r]
       THEN /\ sent' = [sent EXCEPT ![r] =
                          Append(@, completion_message(r, runs[r].documents,
                                                       runs[r].token_usage))]
            /\ runs' = [runs EXCEPT ![r].pc = "done"]
       ELSE /\ sent' = sent
            /\ runs' = [runs EXCEPT ![r].pc = "completion_except"]
    /\ UNCHANGED <<history, open, user_profile>>

\* _handle_research_completion, except Exception: the row is updated to
\* failed.
CompletionFailed(r) ==
    /\ runs[r].pc = "completion_except"
    /\ history' = [history EXCEPT ![r] =
                      update_research_status(@, "failed", NoCredits, NoUsage)]
    /\ runs' = [runs EXCEPT ![r].pc = "done"]
    /\ UNCHANGED <<open, sent, user_profile>>

\* The client goes away.
ClientCloses(r) ==
    /\ open[r]
    /\ runs[r].pc # "done"
    /\ open' = [open EXCEPT ![r] = FALSE]
    /\ UNCHANGED <<history, runs, sent, user_profile>>

\* The other subsystems stand still.
ResearchFrame == UNCHANGED <<creditVars, trackerVars, dispatchVars,
    writerVars, documentVars, chatVars, nestedVars, flowVars, retryVars,
    generateVars, deepVars, trimVars, subtopicVars, storeVars, bridgeVars,
    userChatVars>>

NextResearch ==
    \E r \in Runs :
        \/ StartResearch(r) /\ ResearchFrame
        \/ VerifyProfile(r) /\ ResearchFrame
        \/ CreateResearchEntry(r) /\ ResearchFrame
        \/ SendProgress(r) /\ ResearchFrame
        \/ handle_start_command(r) /\ ResearchFrame
        \/ ResearchFailed(r) /\ ResearchFrame
        \/ CompletionDocuments(r) /\ ResearchFrame
        \/ CompletionLoadRow(r) /\ ResearchFrame
        \/ CompletionUpdateStatus(r) /\ ResearchFrame
        \/ CompletionSend(r) /\ ResearchFrame
        \/ CompletionFailed(r) /\ ResearchFrame
        \/ ClientCloses(r) /\ ResearchFrame

(***************************************************************************)
(*                        CLAIMS: RESEARCH RUNS                            *)
(***************************************************************************)

\* C1: a research-history row's status only ever changes from pending to
\* completed or from pending to failed (after its creation as pending); a
\* row that is completed or failed never changes status again.
C1_StatusOnlyLeavesPending ==
    [][\A r \in Runs :
          history'[r].status # history[r].status =>
              \/ history[r].status = "none" /\ history'[r].status = "pending"
              \/ /\ history[r].status = "pending"
                 /\ history'[r].status \in {"completed", "failed"}]_vars

\* The research_complete messages written to the socket of run r.
CompleteMessages(r) ==
    {i \in 1..Len(sent[r]) : sent[r][i].type = "research_complete"}

\* C6: the completion handler sends one consolidated research_complete
\* message per research run and never a second or partial one: at most one
\* is ever written, exactly one once the handler has returned on a socket
\* that is still connected, it is the last message of the run, and it
\* carries the run's research_id, the uploaded documents and a token_usage
\* that is always present, all zero when no usage was available.
C6_OneConsolidatedCompletion ==
    \A r \in Runs :
        /\ Cardinality(CompleteMessages(r)) <= 1
        /\ (runs[r].pc = "done" /\ runs[r].flow = "returned" /\ open[r]) =>
               Cardinality(CompleteMessages(r)) = 1
        /\ \A i \in CompleteMessages(r) :
               /\ i = Len(sent[r])
               /\ sent[r][i].research_id = r
               /\ sent[r][i].documents = runs[r].documents
               /\ sent[r][i].token_usage.present
               /\ ~ runs[r].input_usage.available =>
                      sent[r][i].token_usage = ZeroUsage
               /\ runs[r].input_usage.total_tokens > 0 =>
                      sent[r][i].token_usage.total_tokens =
                          runs[r].input_usage.total_tokens

\* C6 witness: one run has sent its completion with both documents and a
\* zeroed token_usage because none was available, the other with the usage
\* it was given.
C6_Witness ==
    /\ runs["r1"].pc = "done"
    /\ Cardinality(CompleteMessages("r1")) = 1
    /\ ~ runs["r1"].input_usage.available
    /\ sent["r1"][Len(sent["r1"])].documents = MaxDocuments
    /\ sent["r1"][Len(sent["r1"])].token_usage = ZeroUsage
    /\ runs["r2"].pc = "done"
    /\ Cardinality(CompleteMessages("r2")) = 1
    /\ sent["r2"][Len(sent["r2"])].token_usage.total_tokens > 0

\* C7: a run whose report flow raised or returned an empty report ends
\* with its history row failed, not completed.
C7_FailedReportIsMarkedFailed ==
    \A r \in Runs :
        (/\ runs[r].pc = "done"
         /\ \/ runs[r].flow = "raised"
            \/ runs[r].flow = "returned" /\ runs[r].report = "empty") =>
            history[r].status = "failed"

\* The messages of the given type written to the socket of run r.
MessagesOfType(r, type) == {i \in 1..Len(sent[r]) : sent[r][i].type = type}

\* The run of r has begun: the handler is at or past the acknowledgement.
RunBegun(r) ==
    \/ runs[r].pc \in {"progress", "running"}
    \/ runs[r].flow # "none"
    \/ MessagesOfType(r, "research_progress") # {}

\* C14: start_research begins a research run only after a history row in
\* pending status with credits_used = 0 has been created for it; when the
\* caller's profile cannot be materialized it fails closed with
\* USER_PROFILE_MISSING: no history row, no research_progress
\* acknowledgement, no run.
C14_PendingRowBeforeRun ==
    \A r \in Runs :
        /\ RunBegun(r) =>
              /\ history[r].status # "none"
              /\ history[r].credits_used = 0
        /\ runs[r].pc \in {"progress", "running"} =>
              history[r].status = "pending"
        /\ runs[r].error = "USER_PROFILE_MISSING" =>
              /\ history[r].status = "none"
              /\ ~ RunBegun(r)
              /\ runs[r].pc = "done"
              /\ sent[r] \in {<<>>, <<OtherMessage("USER_PROFILE_MISSING", r)>>}

\* C14 witness: one run is under way on its pending row, the other was
\* refused for want of a profile.
C14_Witness ==
    /\ runs["r1"].pc = "running"
    /\ history["r1"] = entry_data(0)
    /\ MessagesOfType("r1", "research_progress") = {1}
    /\ ~ user_profile["r2"]
    /\ runs["r2"].error = "USER_PROFILE_MISSING"
    /\ sent["r2"] = <<OtherMessage("USER_PROFILE_MISSING", "r2")>>

(***************************************************************************)
(*                          MESSAGE DISPATCH                               *)
(* handle_message routes one message at a time per socket; require_auth    *)
(* raises WebSocketDisconnect, and which except clause catches it follows  *)
(* from the exception's class.                                             *)
(***************************************************************************)

Sockets == {"ws1", "ws2"}

\* Bound on the messages received in one run of the model.
MaxMessages == 2

\* Handlers that start with require_auth.
AuthRequiredTypes ==
    {"get_user_info", "get_credits", "get_history", "get_documents",
     "start_research", "chat", "human_feedback", "update_credits"}

\* "invalid" is a text that is neither JSON nor a legacy format, "unknown" a
\* JSON message of no known type, "not_an_object" JSON that is not an object
\* (data.get raises AttributeError).
\* The texts taken when json.loads fails: "start {...}", "chat ..." and
\* "human_feedback {...}", recognised by their prefix.
LegacyTypes == {"legacy_start", "legacy_chat", "legacy_human_feedback"}

MessageTypes ==
    AuthRequiredTypes \cup LegacyTypes \cup
    {"ping", "invalid", "not_an_object", "unknown", "authenticate", "user_chat"}

NoException == [class |-> "none", code |-> 0]

\* raise WebSocketDisconnect(code=1008, reason="Authentication required")
AuthDisconnect == [class |-> "WebSocketDisconnect", code |-> 1008]

\* What a send on a socket whose client is gone raises, or a handler body
\* that fails: some subclass of Exception.
RuntimeError == [class |-> "RuntimeError", code |-> 0]

\* The classes an exception is an instance of: starlette's
\* WebSocketDisconnect, like every error class here, derives from Exception.
Mro(class) == IF class = "none" THEN {} ELSE {class, "Exception"}

\* The except clauses around each handler's body, in order, with what the
\* clause does: re-raise, or answer with the handler's error reply.
ExceptClauses(message_type) ==
    IF message_type \in {"get_user_info", "get_credits", "get_history",
                         "get_documents", "start_research"}
    THEN <<[class |-> "WebSocketDisconnect", do |-> "raise"],
           [class |-> "Exception", do |-> "reply"]>>
    ELSE IF message_type \in {"chat", "human_feedback"}
    THEN <<[class |-> "WebSocketDisconnect", do |-> "raise"]>>
    ELSE IF message_type = "update_credits"
    THEN <<[class |-> "ValueError", do |-> "reply"],
           [class |-> "Exception", do |-> "reply"]>>
    ELSE IF message_type = "user_chat"
    THEN <<[class |-> "Exception", do |-> "reply"]>>
    ELSE <<>>

\* The mutant of OuterClauses: the backstop catches ValueError only.
OuterClausesNarrow == <<[class |-> "ValueError", do |-> "reply"]>>

\* handle_message's own clause: except Exception.
OuterClauses == <<[class |-> "Exception", do |-> "reply"]>>

\* What the first clause matching the exception does; "raise" when none
\* matches.
FirstMatch(clauses, exception) ==
    LET hits == {i \in 1..Len(clauses) : clauses[i].class \in Mro(exception.class)}
    IN  IF hits = {} THEN "raise"
        ELSE clauses[CHOOSE i \in hits : \A j \in hits : i <= j].do

\* The reply of a handler's except Exception clause.
HandlerErrorReply(message_type) ==
    IF message_type = "update_credits" THEN "update_credits_response_failure"
    ELSE IF message_type = "start_research" THEN "RESEARCH_FAILED"
    ELSE IF message_type = "user_chat" THEN "CHAT_ERROR"
    ELSE "INTERNAL_ERROR"

\* The characters tokens are made of here: braces, blank, and a letter
\* standing for any other character.
NoToken == [given |-> FALSE, text |-> <<>>]

Token(text) == [given |-> TRUE, text |-> text]

\* "{{access_token}}", the unresolved template placeholder.
AccessTokenPlaceholder == <<"{", "{", "a", "}", "}">>

\* The token field of an authenticate message: absent, empty, blank, the
\* placeholder, the placeholder with blanks around it, half placeholders,
\* and plain tokens.
Tokens ==
    {NoToken, Token(<<>>), Token(<<" ">>), Token(AccessTokenPlaceholder),
     Token(<<" ">> \o AccessTokenPlaceholder \o <<" ">>),
     Token(<<"{", "{", "a">>), Token(<<"a", "}", "}">>),
     Token(<<"a">>), Token(<<" ", "a">>)}

\* The access token of the session a successful sign-in returns.
SessionToken == Token(<<"a", "a">>)

RECURSIVE LStrip(_)
LStrip(text) ==
    IF text # <<>> /\ Head(text) = " " THEN LStrip(Tail(text)) ELSE text

RECURSIVE RStrip(_)
RStrip(text) ==
    IF text # <<>> /\ text[Len(text)] = " "
    THEN RStrip(SubSeq(text, 1, Len(text) - 1)) ELSE text

\* str.strip()
Strip(text) == RStrip(LStrip(text))

\* str.startswith, str.endswith
StartsWith(text, prefix) ==
    Len(text) >= Len(prefix) /\ SubSeq(text, 1, Len(prefix)) = prefix

EndsWith(text, suffix) ==
    /\ Len(text) >= Len(suffix)
    /\ SubSeq(text, Len(text) - Len(suffix) + 1, Len(text)) = suffix

\* Python's truth value of the token: None and "" are false.
Truthy(token) == token.given /\ token.text # <<>>

\* The mutant of is_token_valid: only an absent or blank token is missing.
is_token_nonblank(token) == Truthy(token) /\ Strip(token.text) # <<>>

\* _handle_authenticate, is_token_valid.
is_token_valid(token) ==
    /\ Truthy(token)
    /\ Strip(token.text) # <<>>
    /\ ~ StartsWith(Strip(token.text), <<"{", "{">>)
    /\ ~ EndsWith(Strip(token.text), <<"}", "}">>)

IdleDispatch ==
    [pc |-> "idle", message_type |-> "none", exception |-> NoException,
     replies |-> <<>>, auth_failed |-> FALSE, token |-> NoToken,
     credentials |-> FALSE, idp_calls |-> 0, user_set |-> FALSE,
     caught |-> "none", after_invalid |-> FALSE]

InitDispatch ==
    /\ websocket_users = {}
    /\ dispatch = [ws \in Sockets |-> IdleDispatch]
    /\ nMessages = 0
    /\ connected = [ws \in Sockets |-> TRUE]

\* The endpoint loop hands the next client message to handle_message; an
\* authenticate message carries a token field and possibly an email and
\* password pair.  after_invalid: the socket's previous message failed JSON
\* parsing.
ReceiveMessage(ws) ==
    /\ dispatch[ws].pc \in {"idle", "returned"}
    /\ connected[ws]
    /\ nMessages < MaxMessages
    /\ \E message_type \in MessageTypes, token \in Tokens, credentials \in BOOLEAN :
          /\ message_type # "authenticate" => (token = NoToken /\ ~ credentials)
          /\ dispatch' = [dispatch EXCEPT ![ws] =
                [IdleDispatch EXCEPT !.pc = "route", !.message_type = message_type,
                                     !.token = token, !.credentials = credentials,
                                     !.after_invalid =
                                         dispatch[ws].message_type = "invalid"]]
    /\ nMessages' = nMessages + 1
    /\ UNCHANGED <<websocket_users, connected>>

\* websocket.send_json / send_text from the code at position "at": the
\* reply is written and the code goes on to "next", or the client is gone
\* and the send raises into the except clauses around "at".
SendOr(ws, d, reply, next, except) ==
    IF connected[ws]
    THEN [d EXCEPT !.pc = next, !.replies = Append(@, reply)]
    ELSE [d EXCEPT !.pc = except, !.exception = RuntimeError]

\* The mutant of PingReply: the text goes to json.loads like any other.
PingParsed == "INVALID_MESSAGE"

\* if message == "ping": await websocket.send_text("pong"); return
PingReply == "pong"

\* handle_message: ping, the legacy formats, and the routing by type.
handle_message(ws) ==
    /\ dispatch[ws].pc = "route"
    /\ LET d == dispatch[ws]
           message_type == d.message_type
           Reply(r) == [dispatch EXCEPT ![ws] =
                            SendOr(ws, d, r, "returned", "outer_except")]
       IN  dispatch' =
             CASE message_type = "ping" -> Reply(PingReply)
               [] message_type = "invalid" -> Reply("INVALID_MESSAGE")
               [] message_type = "unknown" -> Reply("UNKNOWN_MESSAGE_TYPE")
               [] message_type = "not_an_object" ->
                     [dispatch EXCEPT ![ws].pc = "outer_except",
                                      ![ws].exception =
                                          [class |-> "AttributeError", code |-> 0]]
               [] message_type \in LegacyTypes ->
                     [dispatch EXCEPT ![ws].pc = "handler"]
               [] message_type = "authenticate" ->
                     [dispatch EXCEPT ![ws].pc = "authenticate"]
               [] message_type = "user_chat" ->
                     IF ws \in websocket_users
                     THEN [dispatch EXCEPT ![ws].pc = "handler"]
                     ELSE [dispatch EXCEPT ![ws] =
                              SendOr(ws, d, "AUTHENTICATION_REQUIRED", "returned",
                                     "handler_except")]
               [] OTHER -> [dispatch EXCEPT ![ws].pc = "require_auth"]
    /\ UNCHANGED <<websocket_users, nMessages, connected>>

\* _handle_authenticate: an email and password pair is signed in first and
\* the session's token replaces the message's; the token is then checked
\* for being missing or a placeholder, and only then verified.  sign_in and
\* verified are what the identity provider answers.
handle_authenticate(ws) ==
    /\ dispatch[ws].pc = "authenticate"
    /\ \E sign_in \in {"session", "no_token", "raises"}, verified \in BOOLEAN :
          LET d == dispatch[ws]
              signs_in == d.credentials
              token == IF signs_in /\ sign_in = "session" THEN SessionToken
                       ELSE d.token
              early == IF signs_in /\ sign_in = "raises" THEN "SIGN_IN_ERROR"
                       ELSE IF signs_in /\ sign_in = "no_token" /\ ~ Truthy(token)
                       THEN "NO_TOKEN"
                       ELSE IF ~ is_token_valid(token) THEN "TOKEN_REQUIRED"
                       ELSE "none"
              verifies == early = "none"
              calls == (IF signs_in THEN 1 ELSE 0) + (IF verifies THEN 1 ELSE 0)
              sets == verifies /\ verified
              reply == IF early # "none" THEN early
                       ELSE IF verified THEN "auth_success" ELSE "INVALID_TOKEN"
          IN  /\ ~ signs_in => sign_in = "session"
              /\ ~ verifies => verified
              /\ websocket_users' = IF sets THEN websocket_users \cup {ws}
                                    ELSE websocket_users
              /\ dispatch' = [dispatch EXCEPT ![ws] =
                    SendOr(ws, [d EXCEPT !.idp_calls = calls, !.user_set = sets],
                           reply, "returned", "outer_except")]
    /\ UNCHANGED <<nMessages, connected>>

\* require_auth: the recorded user id, or the AUTHENTICATION_REQUIRED error
\* and WebSocketDisconnect(code=1008) raised into the handler.
require_auth(ws) ==
    /\ dispatch[ws].pc = "require_auth"
    /\ dispatch' =
          IF ws \in websocket_users
          THEN [dispatch EXCEPT ![ws].pc = "handler"]
          ELSE IF connected[ws]
          THEN [dispatch EXCEPT ![ws].pc = "handler_except",
                                ![ws].replies = Append(@, "AUTHENTICATION_REQUIRED"),
                                ![ws].exception = AuthDisconnect,
                                ![ws].auth_failed = TRUE]
          ELSE [dispatch EXCEPT ![ws].pc = "handler_except",
                                ![ws].exception = RuntimeError]
    /\ UNCHANGED <<websocket_users, nMessages, connected>>

\* The handler's body answers the request, or something in it raises.
HandlerBody(ws) ==
    /\ dispatch[ws].pc = "handler"
    /\ \E ok \in BOOLEAN :
          dispatch' =
             IF ok
             THEN [dispatch EXCEPT ![ws] =
                     SendOr(ws, dispatch[ws], "response", "returned", "handler_except")]
             ELSE [dispatch EXCEPT ![ws].pc = "handler_except",
                                   ![ws].exception = RuntimeError]
    /\ UNCHANGED <<websocket_users, nMessages, connected>>

\* The handler's except clauses meet the exception: the first matching one
\* re-raises it or answers with the handler's error reply.
HandlerExcept(ws) ==
    /\ dispatch[ws].pc = "handler_except"
    /\ dispatch' =
          IF FirstMatch(ExceptClauses(dispatch[ws].message_type),
                        dispatch[ws].exception) = "raise"
          THEN [dispatch EXCEPT ![ws].pc = "outer_except"]
          ELSE [dispatch EXCEPT ![ws] =
                  SendOr(ws, [dispatch[ws] EXCEPT !.exception = NoException],
                         HandlerErrorReply(dispatch[ws].message_type),
                         "returned", "outer_except")]
    /\ UNCHANGED <<websocket_users, nMessages, connected>>

\* handle_message's except clause meets what came out of the routing: it
\* answers INTERNAL_ERROR, and a failing send of that answer leaves
\* handle_message.
OuterExcept(ws) ==
    /\ dispatch[ws].pc = "outer_except"
    /\ LET d == [dispatch[ws] EXCEPT !.caught = dispatch[ws].exception.class]
       IN  dispatch' =
             IF FirstMatch(OuterClauses, d.exception) = "raise"
             THEN [dispatch EXCEPT ![ws] = [d EXCEPT !.pc = "raised"]]
             ELSE [dispatch EXCEPT ![ws] =
                     SendOr(ws, [d EXCEPT !.exception = NoException],
                            "INTERNAL_ERROR", "returned", "raised")]
    /\ UNCHANGED <<websocket_users, nMessages, connected>>

\* The client goes away.
ClientDisconnects(ws) ==
    /\ connected[ws]
    /\ dispatch[ws].pc # "idle"
    /\ connected' = [connected EXCEPT ![ws] = FALSE]
    /\ UNCHANGED <<websocket_users, dispatch, nMessages>>

\* on_disconnect: the connection has ended and the socket's user id is
\* forgotten; the name stands for a new connection from here on.
on_disconnect(ws) ==
    /\ dispatch[ws].pc \in {"returned", "raised"}
    /\ ~ connected[ws]
    /\ websocket_users' = websocket_users \ {ws}
    /\ dispatch' = [dispatch EXCEPT ![ws] = IdleDispatch]
    /\ connected' = [connected EXCEPT ![ws] = TRUE]
    /\ UNCHANGED nMessages

\* The other subsystems stand still.
DispatchFrame == UNCHANGED <<creditVars, trackerVars, researchVars,
    writerVars, documentVars, chatVars, nestedVars, flowVars, retryVars,
    generateVars, deepVars, trimVars, subtopicVars, storeVars, bridgeVars,
    userChatVars>>

NextDispatch ==
    \E ws \in Sockets :
        \/ ReceiveMessage(ws) /\ DispatchFrame
        \/ handle_message(ws) /\ DispatchFrame
        \/ handle_authenticate(ws) /\ DispatchFrame
        \/ require_auth(ws) /\ DispatchFrame
        \/ HandlerBody(ws) /\ DispatchFrame
        \/ HandlerExcept(ws) /\ DispatchFrame
        \/ OuterExcept(ws) /\ DispatchFrame
        \/ ClientDisconnects(ws) /\ DispatchFrame
        \/ on_disconnect(ws) /\ DispatchFrame

(***************************************************************************)
(*                       CLAIMS: MESSAGE DISPATCH                          *)
(***************************************************************************)

\* C3: when a message type that requires authentication arrives on a socket
\* with no recorded user id, the only reply is AUTHENTICATION_REQUIRED and
\* the WebSocketDisconnect with code 1008 leaves handle_message: it is not
\* caught and answered with INTERNAL_ERROR or any other second reply.
C3_AuthDisconnectPropagates ==
    \A ws \in Sockets :
        (dispatch[ws].auth_failed /\ dispatch[ws].pc \in {"returned", "raised"}) =>
            /\ dispatch[ws].replies = <<"AUTHENTICATION_REQUIRED">>
            /\ dispatch[ws].pc = "raised"
            /\ dispatch[ws].exception = AuthDisconnect

\* The token field is the literal placeholder, empty or whitespace.
IsMissingToken(token) ==
    token.given /\ (Strip(token.text) = <<>> \/ token.text = AccessTokenPlaceholder)

\* An authenticate message has been handled on ws.
Authenticated(ws) ==
    /\ dispatch[ws].message_type = "authenticate"
    /\ dispatch[ws].pc \in {"returned", "outer_except", "raised"}

\* C12 as stated: an authenticate message whose token is the placeholder
\* "{{access_token}}", empty or whitespace is answered with the token
\* required error, no identity-provider call is made for it and it does not
\* set the socket's user.
C12_PlaceholderTokenRejected ==
    \A ws \in Sockets :
        (Authenticated(ws) /\ IsMissingToken(dispatch[ws].token)) =>
            /\ dispatch[ws].idp_calls = 0
            /\ ~ dispatch[ws].user_set
            /\ dispatch[ws].pc = "returned" =>
                   dispatch[ws].replies = <<"TOKEN_REQUIRED">>

\* C12 amended: the same for an authenticate message that carries no email
\* and password pair.
C12_PlaceholderTokenRejectedWithoutCredentials ==
    \A ws \in Sockets :
        (/\ Authenticated(ws)
         /\ IsMissingToken(dispatch[ws].token)
         /\ ~ dispatch[ws].credentials) =>
            /\ dispatch[ws].idp_calls = 0
            /\ ~ dispatch[ws].user_set
            /\ dispatch[ws].pc = "returned" =>
                   dispatch[ws].replies = <<"TOKEN_REQUIRED">>

\* C12 witness: the placeholder alone was answered with the token required
\* error on one socket, and the blank token on the other.
C12_Witness ==
    /\ dispatch["ws1"].message_type = "authenticate"
    /\ dispatch["ws1"].pc = "returned"
    /\ dispatch["ws1"].token = Token(AccessTokenPlaceholder)
    /\ ~ dispatch["ws1"].credentials
    /\ dispatch["ws1"].replies = <<"TOKEN_REQUIRED">>
    /\ dispatch["ws2"].message_type = "authenticate"
    /\ dispatch["ws2"].pc = "returned"
    /\ dispatch["ws2"].token = Token(<<" ">>)
    /\ dispatch["ws2"].replies = <<"TOKEN_REQUIRED">>

\* The INTERNAL_ERROR replies to the message on ws.
InternalErrors(ws) ==
    {i \in 1..Len(dispatch[ws].replies) : dispatch[ws].replies[i] = "INTERNAL_ERROR"}

\* An exception other than the auth-required disconnect reached
\* handle_message's except clause.
Backstopped(ws) == dispatch[ws].caught \notin {"none", "WebSocketDisconnect"}

\* C15 as stated: an exception raised in dispatch (other than the
\* auth-required disconnect) ends as one INTERNAL_ERROR reply, the last one,
\* and handle_message returns normally.
C15_InternalErrorBackstop ==
    \A ws \in Sockets :
        Backstopped(ws) =>
            /\ dispatch[ws].pc = "returned"
            /\ Cardinality(InternalErrors(ws)) = 1
            /\ dispatch[ws].replies[Len(dispatch[ws].replies)] = "INTERNAL_ERROR"

\* C15 amended: the same while the client of the socket is still connected.
C15_InternalErrorBackstopWhileConnected ==
    \A ws \in Sockets :
        (Backstopped(ws) /\ connected[ws]) =>
            /\ dispatch[ws].pc = "returned"
            /\ Cardinality(InternalErrors(ws)) = 1
            /\ dispatch[ws].replies[Len(dispatch[ws].replies)] = "INTERNAL_ERROR"

\* C15 witness: the chat handler, which has no except clause for it, raised
\* on an authenticated socket and the message was answered with
\* INTERNAL_ERROR alone.
C15_Witness ==
    /\ "ws1" \in websocket_users
    /\ connected["ws1"]
    /\ dispatch["ws1"].message_type = "chat"
    /\ dispatch["ws1"].caught = "RuntimeError"
    /\ dispatch["ws1"].replies = <<"INTERNAL_ERROR">>
    /\ dispatch["ws1"].pc = "returned"

\* The message "ping" on ws has been handled.
PingHandled(ws) ==
    /\ dispatch[ws].message_type = "ping"
    /\ dispatch[ws].pc \in {"returned", "raised"}

\* C30: the literal text "ping" always yields the literal text reply "pong"
\* and nothing else, whether the socket is authenticated or not and whether
\* or not other inbound text is failing JSON parsing; only a client that
\* has gone gets no reply.
C30_PingYieldsPong ==
    \A ws \in Sockets :
        PingHandled(ws) =>
            \/ dispatch[ws].replies = <<"pong">> /\ dispatch[ws].pc = "returned"
            \/ dispatch[ws].replies = <<>> /\ ~ connected[ws]

\* C30 witness: an unauthenticated socket whose previous message failed JSON
\* parsing sent ping and got pong.
C30_Witness ==
    /\ "ws1" \notin websocket_users
    /\ connected["ws1"]
    /\ PingHandled("ws1")
    /\ dispatch["ws1"].after_invalid
    /\ dispatch["ws1"].replies = <<"pong">>

\* The message on ws is in the code that starts a research run
\* (handle_start_command), in the chat path or in the human-feedback handler.
InProtectedHandler(ws) ==
    /\ dispatch[ws].pc = "handler"
    /\ dispatch[ws].message_type \in
          LegacyTypes \cup {"start_research", "chat", "human_feedback"}

\* C31: on a socket with no recorded authenticated user, no inbound frame of
\* any format, the legacy texts "start <json>", "chat ..." and
\* "human_feedback <json>" included, starts a research run or reaches the
\* chat or human-feedback handlers.
C31_NoHandlerWithoutUser ==
    \A ws \in Sockets : InProtectedHandler(ws) => ws \in websocket_users

(***************************************************************************)
(*                        WRITERS OF ONE SOCKET                            *)
(* connect() gives the socket a queue and a sender task.  The task that    *)
(* runs handle_message (replies, progress events, report chunks) and the   *)
(* HTTP log handler's own task call websocket.send_json themselves; a      *)
(* task is inside a write from the call until the awaited send returns.    *)
(***************************************************************************)

\* Bound on the frames written in one run of the model.
MaxFrames == 3

\* Bound on the httpx log records waiting in log_queue.
MaxLogs == 2

\* What the handler task writes with websocket.send_json.
HandlerWrites == {"reply", "research_progress", "report"}

\* The shutdown signal disconnect() puts on the queue.
Shutdown == "None"

\* connect(): the socket is accepted and active, its queue is empty, the
\* sender task waits on the queue; the log handler's task is polling.
InitWriters ==
    /\ active = TRUE
    /\ message_queue = <<>>
    /\ sender = "waiting"
    /\ handler = "idle"
    /\ log_queue = 0
    /\ log_sender = "polling"
    /\ frames = 0

\* The tasks that are inside a write to the socket.
InWrite ==
    {task \in {"sender", "handler", "log_sender"} :
        \/ task = "sender" /\ sender = "writing"
        \/ task = "handler" /\ handler \in HandlerWrites
        \/ task = "log_sender" /\ log_sender = "writing"}

\* start_sender: the loop takes the next queued message; the shutdown
\* signal or an inactive socket ends it, anything else is written with
\* send_text.
start_sender ==
    /\ \/ sender = "waiting" /\ message_queue # <<>>
       \/ sender = "writing"
    /\ IF sender = "writing"
       THEN /\ sender' = "waiting"
            /\ frames' = frames + 1
            /\ UNCHANGED message_queue
       ELSE /\ message_queue' = Tail(message_queue)
            /\ sender' = IF Head(message_queue) = Shutdown \/ ~ active
                         THEN "stopped" ELSE "writing"
            /\ frames' = frames
    /\ UNCHANGED <<active, handler, log_queue, log_sender>>

\* disconnect(): the socket leaves active_connections and the shutdown
\* signal is queued.
disconnect ==
    /\ active
    /\ handler = "idle"
    /\ active' = FALSE
    /\ message_queue' = Append(message_queue, Shutdown)
    /\ UNCHANGED <<sender, handler, log_queue, log_sender, frames>>

\* The handler task calls websocket.send_json: a handler's reply, a
\* research_progress event, a report chunk from _send_output.
HandlerSend ==
    /\ active
    /\ handler = "idle"
    /\ frames < MaxFrames
    /\ \E kind \in HandlerWrites : handler' = kind
    /\ UNCHANGED <<active, message_queue, sender, log_queue, log_sender, frames>>

\* The awaited send returns.
HandlerSent ==
    /\ handler \in HandlerWrites
    /\ handler' = "idle"
    /\ frames' = frames + 1
    /\ UNCHANGED <<active, message_queue, sender, log_queue, log_sender>>

\* emit(): an httpx request log record is queued for the log sender.
emit ==
    /\ active
    /\ log_queue < MaxLogs
    /\ log_queue' = log_queue + 1
    /\ UNCHANGED <<active, message_queue, sender, handler, log_sender, frames>>

\* _sender_loop: get_nowait() a record and call websocket.send_json.
LogSenderSend ==
    /\ active
    /\ log_sender = "polling"
    /\ log_queue > 0
    /\ frames < MaxFrames
    /\ log_queue' = log_queue - 1
    /\ log_sender' = "writing"
    /\ UNCHANGED <<active, message_queue, sender, handler, frames>>

\* The awaited send returns.
LogSenderSent ==
    /\ log_sender = "writing"
    /\ log_sender' = "polling"
    /\ frames' = frames + 1
    /\ UNCHANGED <<active, message_queue, sender, handler, log_queue>>

\* The other subsystems stand still.
WriterFrame == UNCHANGED <<creditVars, trackerVars, researchVars,
    dispatchVars, documentVars, chatVars, nestedVars, flowVars, retryVars,
    generateVars, deepVars, trimVars, subtopicVars, storeVars, bridgeVars,
    userChatVars>>

NextWriters ==
    \/ start_sender /\ WriterFrame
    \/ disconnect /\ WriterFrame
    \/ HandlerSend /\ WriterFrame
    \/ HandlerSent /\ WriterFrame
    \/ emit /\ WriterFrame
    \/ LogSenderSend /\ WriterFrame
    \/ LogSenderSent /\ WriterFrame

(***************************************************************************)
(*                     CLAIMS: WRITERS OF ONE SOCKET                       *)
(***************************************************************************)

\* C4: the writes to a connection's socket are serialized, so no two
\* writers (report streaming, HTTP log bridging, progress events, handler
\* replies) are inside a write to the same socket at the same time.
C4_WritesSerialized == Cardinality(InWrite) <= 1

(***************************************************************************)
(*                            GET DOCUMENTS                                *)
(***************************************************************************)

\* The research ids a client can name that parse as a UUID.
ResearchIds == {"id1", "id2"}

\* data.get("research_id") is missing or empty.
NoResearchId == "absent"

\* A research_id for which UUID(research_id) raises ValueError.
MalformedId == "malformed"

\* No research_history row: get_research_by_id returns None.
NoOwner == "none"

\* file_type of a research_documents row.
FileTypes == {"pdf", "docx"}

ErrorReply(code) == [type |-> code, documents |-> {}]

DocumentsReply(documents) == [type |-> "documents", documents |-> documents]

IdleGetDocuments ==
    [pc |-> "idle", research_id |-> NoResearchId, research |-> NoOwner,
     replies |-> <<>>]

InitDocuments ==
    /\ owner = [id \in ResearchIds |-> NoOwner]
    /\ research_documents = [id \in ResearchIds |-> {}]
    /\ gd = [c \in Users |-> IdleGetDocuments]

\* create_research_entry: a row owned by the user who started the research.
create_research_entry(id, user_id) ==
    /\ owner[id] = NoOwner
    /\ owner' = [owner EXCEPT ![id] = user_id]
    /\ UNCHANGED <<research_documents, gd>>

\* upload_document: a document row for an existing research entry.
upload_document(id, file_type) ==
    /\ owner[id] # NoOwner
    /\ file_type \notin research_documents[id]
    /\ research_documents' = [research_documents EXCEPT ![id] = @ \cup {file_type}]
    /\ UNCHANGED <<owner, gd>>

\* The mutant of OwnedByCaller: any research entry that exists passes.
AnyResearchFound(research, user_id) == research # NoOwner

\* not (not research or research["user_id"] != user_id)
OwnedByCaller(research, user_id) == research # NoOwner /\ research = user_id

\* _handle_get_documents up to the lookup, for the authenticated caller
\* user_id: a missing research_id is answered MISSING_PARAMETER, a
\* malformed one raises ValueError in UUID() and is answered by the
\* handler's except Exception.
handle_get_documents(user_id, research_id) ==
    /\ gd[user_id].pc = "idle"
    /\ gd' = [gd EXCEPT ![user_id] =
          IF research_id = NoResearchId
          THEN [IdleGetDocuments EXCEPT !.pc = "returned",
                    !.replies = <<ErrorReply("MISSING_PARAMETER")>>]
          ELSE IF research_id = MalformedId
          THEN [IdleGetDocuments EXCEPT !.pc = "returned",
                    !.research_id = research_id,
                    !.replies = <<ErrorReply("INTERNAL_ERROR")>>]
          ELSE [IdleGetDocuments EXCEPT !.pc = "get_research_by_id",
                    !.research_id = research_id]]
    /\ UNCHANGED <<owner, research_documents>>

\* get_research_by_id and the ownership check: the row, or None when there
\* is none or the query fails; anything but the caller's own row is
\* answered UNAUTHORIZED.
get_research_by_id(user_id) ==
    /\ gd[user_id].pc = "get_research_by_id"
    /\ \E fails \in BOOLEAN :
          LET research == IF fails THEN NoOwner
                          ELSE owner[gd[user_id].research_id]
          IN  gd' = [gd EXCEPT ![user_id] =
                IF OwnedByCaller(research, user_id)
                THEN [@ EXCEPT !.pc = "list_research_documents",
                               !.research = research]
                ELSE [@ EXCEPT !.pc = "returned", !.research = research,
                               !.replies = Append(@, ErrorReply("UNAUTHORIZED"))]]
    /\ UNCHANGED <<owner, research_documents>>

\* list_research_documents and the documents reply: the rows of the
\* research entry, or [] when the query fails.
list_research_documents(user_id) ==
    /\ gd[user_id].pc = "list_research_documents"
    /\ \E fails \in BOOLEAN :
          LET documents == IF fails THEN {}
                           ELSE research_documents[gd[user_id].research_id]
          IN  gd' = [gd EXCEPT ![user_id].pc = "returned",
                               ![user_id].replies =
                                   Append(@, DocumentsReply(documents))]
    /\ UNCHANGED <<owner, research_documents>>

\* The handler has returned; the caller may send its next request.
GetDocumentsReturn(user_id) ==
    /\ gd[user_id].pc = "returned"
    /\ gd' = [gd EXCEPT ![user_id] = IdleGetDocuments]
    /\ UNCHANGED <<owner, research_documents>>

\* The other subsystems stand still.
DocumentFrame == UNCHANGED <<creditVars, trackerVars, researchVars,
    dispatchVars, writerVars, chatVars, nestedVars, flowVars, retryVars,
    generateVars, deepVars, trimVars, subtopicVars, storeVars, bridgeVars,
    userChatVars>>

NextDocuments ==
    \/ \E id \in ResearchIds, user_id \in Users :
          create_research_entry(id, user_id) /\ DocumentFrame
    \/ \E id \in ResearchIds, file_type \in FileTypes :
          upload_document(id, file_type) /\ DocumentFrame
    \/ \E user_id \in Users,
          research_id \in ResearchIds \cup {NoResearchId, MalformedId} :
          handle_get_documents(user_id, research_id) /\ DocumentFrame
    \/ \E user_id \in Users : get_research_by_id(user_id) /\ DocumentFrame
    \/ \E user_id \in Users : list_research_documents(user_id) /\ DocumentFrame
    \/ \E user_id \in Users : GetDocumentsReturn(user_id) /\ DocumentFrame

(***************************************************************************)
(*                        CLAIMS: GET DOCUMENTS                            *)
(***************************************************************************)

\* The replies of type documents the caller's request has received.
DocumentsReplies(user_id) ==
    {i \in 1..Len(gd[user_id].replies) : gd[user_id].replies[i].type = "documents"}

\* C13: get_documents returns a research run's documents only when the
\* run's owning user is the authenticated caller; for a run that is missing
\* or owned by another user the only reply is UNAUTHORIZED and no documents
\* are returned.
C13_DocumentsOnlyForOwner ==
    \A user_id \in Users :
        LET research_id == gd[user_id].research_id
        IN  /\ DocumentsReplies(user_id) # {} =>
                   /\ research_id \in ResearchIds
                   /\ owner[research_id] = user_id
            /\ (/\ gd[user_id].pc = "returned"
                /\ research_id \in ResearchIds
                /\ owner[research_id] # user_id) =>
                   gd[user_id].replies = <<ErrorReply("UNAUTHORIZED")>>

\* C13 witness: alice was given the document of her run, bob was refused
\* the same run, with the document already stored.
C13_Witness ==
    /\ owner["id1"] = "alice"
    /\ gd["alice"].pc = "returned"
    /\ gd["alice"].research_id = "id1"
    /\ gd["alice"].replies = <<DocumentsReply({"pdf"})>>
    /\ gd["bob"].pc = "returned"
    /\ gd["bob"].research_id = "id1"
    /\ gd["bob"].replies = <<ErrorReply("UNAUTHORIZED")>>

(***************************************************************************)
(*                             CHAT AGENTS                                 *)
(***************************************************************************)

\* The calls of start_streaming; any number of them may be under way on one
\* socket.
Streams == {"s1", "s2", "s3"}

\* report_type: the multi-agent flow, DetailedReport, BasicReport.
ReportTypes == {"multi_agents", "detailed_report", "research_report"}

\* No report: no run has returned, or chat_agents has no entry.
NoReport == [socket |-> "none", run |-> "none"]

\* The report the call s produced on socket ws.
Report(ws, s) == [socket |-> ws, run |-> s]

IdleStream == [pc |-> "idle", websocket |-> "none", report_type |-> "none"]

\* No chat message answered yet.
NoAnswer == [kind |-> "none", seed |-> NoReport, latest |-> NoReport]

InitChat ==
    /\ active_connections = Sockets
    /\ chat_agents = [ws \in Sockets |-> NoReport]
    /\ streams = [s \in Streams |-> IdleStream]
    /\ completed = [ws \in Sockets |-> NoReport]
    /\ answered = [ws \in Sockets |-> NoAnswer]

\* The mutant of AgentKey: one agent for the whole manager.
SharedAgentKey(websocket) == "ws1"

\* The key under which chat_agents holds a socket's agent.
AgentKey(websocket) == websocket

\* start_streaming up to the await of run_agent.
start_streaming(s, websocket, report_type) ==
    /\ streams[s].pc = "idle"
    /\ websocket \in active_connections
    /\ streams' = [streams EXCEPT ![s] =
          [pc |-> "run_agent", websocket |-> websocket,
           report_type |-> report_type]]
    /\ UNCHANGED <<active_connections, chat_agents, completed, answered>>

\* run_agent returns the report, whatever the report type, and
\* chat_agents[websocket] becomes a new agent holding it.
RunAgentReturns(s) ==
    /\ streams[s].pc = "run_agent"
    /\ LET websocket == streams[s].websocket
           report == Report(websocket, s)
       IN  /\ chat_agents' = [chat_agents EXCEPT ![AgentKey(websocket)] = report]
           /\ completed' = [completed EXCEPT ![websocket] = report]
    /\ streams' = [streams EXCEPT ![s].pc = "done", ![s].report_type = "none"]
    /\ UNCHANGED <<active_connections, answered>>

\* run_agent raises: start_streaming is left before the agent is replaced.
RunAgentRaises(s) ==
    /\ streams[s].pc = "run_agent"
    /\ streams' = [streams EXCEPT ![s].pc = "done", ![s].report_type = "none"]
    /\ UNCHANGED <<active_connections, chat_agents, completed, answered>>

\* chat: the socket's agent answers, or the "Knowledge empty" message when
\* the socket has none.
chat(websocket) ==
    /\ websocket \in active_connections
    /\ LET chat_agent == chat_agents[AgentKey(websocket)]
       IN  answered' = [answered EXCEPT ![websocket] =
              [kind |-> IF chat_agent # NoReport THEN "agent"
                        ELSE "knowledge_empty",
               seed |-> chat_agent, latest |-> completed[websocket]]]
    /\ UNCHANGED <<active_connections, chat_agents, streams, completed>>

\* disconnect: the socket leaves active_connections and its agent is
\* deleted.
ChatDisconnect(websocket) ==
    /\ websocket \in active_connections
    /\ active_connections' = active_connections \ {websocket}
    /\ chat_agents' = [chat_agents EXCEPT ![AgentKey(websocket)] = NoReport]
    /\ UNCHANGED <<streams, completed, answered>>

\* The other subsystems stand still.
ChatFrame == UNCHANGED <<creditVars, trackerVars, researchVars,
    dispatchVars, writerVars, documentVars, nestedVars, flowVars,
    retryVars, generateVars, deepVars, trimVars, subtopicVars, storeVars,
    bridgeVars, userChatVars>>

NextChat ==
    \/ \E s \in Streams, websocket \in Sockets, report_type \in ReportTypes :
          start_streaming(s, websocket, report_type) /\ ChatFrame
    \/ \E s \in Streams : RunAgentReturns(s) /\ ChatFrame
    \/ \E s \in Streams : RunAgentRaises(s) /\ ChatFrame
    \/ \E websocket \in Sockets : chat(websocket) /\ ChatFrame
    \/ \E websocket \in Sockets : ChatDisconnect(websocket) /\ ChatFrame

(***************************************************************************)
(*                         CLAIMS: CHAT AGENTS                             *)
(***************************************************************************)

\* C16: after any sequence of research runs and chat messages on any number
\* of connections, a chat message on a socket is answered by a chat agent
\* seeded from the report of that socket's most recently completed run,
\* whatever its report type, and never from a report of another connection.
C16_ChatSeededFromOwnLatestReport ==
    \A ws \in Sockets :
        answered[ws].kind # "none" =>
            /\ answered[ws].seed = answered[ws].latest
            /\ answered[ws].seed.socket \in {"none", ws}
            /\ answered[ws].kind = "agent" <=> answered[ws].latest # NoReport

\* C16 witness: both sockets have completed runs, ws1 two of them, and each
\* socket's chat was answered from its own latest report.
C16_Witness ==
    /\ streams["s1"] = [pc |-> "done", websocket |-> "ws1", report_type |-> "none"]
    /\ streams["s2"].pc = "done"
    /\ streams["s3"].pc = "done"
    /\ answered["ws1"] = [kind |-> "agent", seed |-> Report("ws1", "s2"),
                          latest |-> Report("ws1", "s2")]
    /\ answered["ws2"] = [kind |-> "agent", seed |-> Report("ws2", "s3"),
                          latest |-> Report("ws2", "s3")]

\* C36: once a socket has been disconnected the server holds no per-socket
\* state for it at any later time, also after a research run that was in
\* flight when it disconnected has finished; of the state disconnect()
\* drops, the chat agent is what a run can bring back.
C36_NoStateAfterDisconnect ==
    \A ws \in Sockets :
        ws \notin active_connections => chat_agents[AgentKey(ws)] = NoReport

(***************************************************************************)
(*                         NESTED RESEARCHERS                              *)
(***************************************************************************)

\* The researcher objects of one run: the top-level one and those it may
\* spawn.
Researchers == {"top", "n1", "n2"}

\* A researcher creates its own tracker when it has none; the tracker
\* object researcher r creates is named r.
OwnTracker(r) == r

MaxLLMCalls == 3

\* Tokens one LLM call reports.
CallTokens == {1, 2}

InitNested ==
    /\ role = [r \in Researchers |-> IF r = "top" THEN "top" ELSE "none"]
    /\ token_tracker = [r \in Researchers |-> OwnTracker(r)]
    /\ counted = [t \in Researchers |-> 0]
    /\ usage = 0
    /\ nLLMCalls = 0

\* process_query: the nested researcher of a deep-research sub-query; its
\* token_tracker is assigned the parent's.
process_query(parent, r) ==
    /\ role[parent] \in {"top", "deep_query"}
    /\ role[r] = "none"
    /\ role' = [role EXCEPT ![r] = "deep_query"]
    /\ token_tracker' = [token_tracker EXCEPT ![r] = token_tracker[parent]]
    /\ UNCHANGED <<counted, usage, nLLMCalls>>

\* _get_subtopic_report: the subtopic researcher of a detailed report is
\* constructed and used as constructed; nothing is assigned to its
\* token_tracker.
get_subtopic_report(r) ==
    /\ role[r] = "none"
    /\ role' = [role EXCEPT ![r] = "subtopic"]
    /\ token_tracker' = [token_tracker EXCEPT ![r] = OwnTracker(r)]
    /\ UNCHANGED <<counted, usage, nLLMCalls>>

\* An LLM call made by researcher r (conduct_research, write_report, ...)
\* adds its tokens to the tracker r holds.
LLMCall(r, tokens) ==
    /\ role[r] # "none"
    /\ nLLMCalls < MaxLLMCalls
    /\ counted' = [counted EXCEPT ![token_tracker[r]] = @ + tokens]
    /\ usage' = usage + tokens
    /\ nLLMCalls' = nLLMCalls + 1
    /\ UNCHANGED <<role, token_tracker>>

\* get_token_usage() of the top-level researcher: the summary of its
\* tracker.
get_token_usage == counted[token_tracker["top"]]

\* The other subsystems stand still.
NestedFrame == UNCHANGED <<creditVars, trackerVars, researchVars,
    dispatchVars, writerVars, documentVars, chatVars, flowVars, retryVars,
    generateVars, deepVars, trimVars, subtopicVars, storeVars, bridgeVars,
    userChatVars>>

NextNested ==
    \/ \E parent \in Researchers, r \in Researchers :
          process_query(parent, r) /\ NestedFrame
    \/ \E r \in Researchers : get_subtopic_report(r) /\ NestedFrame
    \/ \E r \in Researchers, tokens \in CallTokens :
          LLMCall(r, tokens) /\ NestedFrame

(***************************************************************************)
(*                      CLAIMS: NESTED RESEARCHERS                         *)
(***************************************************************************)

\* C17: one tracker instance is shared by the top-level researcher and every
\* nested researcher it spawns (deep-research sub-query sessions and
\* detailed-report subtopic researchers): the top-level get_token_usage()
\* total includes the usage of every nested call and no nested researcher
\* counts on a tracker of its own.
C17_OneSharedTracker ==
    /\ \A r \in Researchers :
          role[r] # "none" => token_tracker[r] = token_tracker["top"]
    /\ get_token_usage = usage

(***************************************************************************)
(*                            REPORT FLOWS                                 *)
(***************************************************************************)

\* BasicReport.run and DetailedReport.run.
FlowKinds == {"basic", "detailed"}

MaxFlowCalls == 3

\* Prompt and completion tokens one LLM call of the flow reports; a call
\* whose usage cannot be extracted counts nothing.
FlowCallTokens == {<<0, 0>>, <<1, 0>>, <<1, 1>>}

IdleFlow == [pc |-> "idle", kind |-> "none", report |-> <<>>]

InitFlow ==
    /\ report_flow = IdleFlow
    /\ flow_usage = ZeroTracker
    /\ nFlowCalls = 0

\* get_token_usage(): the summary of the researcher's tracker.
flow_token_usage ==
    [available |-> TRUE,
     prompt_tokens |-> flow_usage.prompt_tokens,
     total_prompt_tokens |-> flow_usage.prompt_tokens,
     completion_tokens |-> flow_usage.completion_tokens,
     total_completion_tokens |-> flow_usage.completion_tokens,
     total_tokens |-> flow_usage.total_tokens,
     call_count |-> flow_usage.call_count]

\* format_token_summary_markdown: the markdown table of the four metrics,
\* prompt and completion read under either key.
format_token_summary_markdown(token_usage) ==
    [heading |-> "Token Usage Report",
     prompt_tokens |-> Or(token_usage.prompt_tokens, token_usage.total_prompt_tokens),
     completion_tokens |-> Or(token_usage.completion_tokens,
                              token_usage.total_completion_tokens),
     total_tokens |-> token_usage.total_tokens,
     call_count |-> token_usage.call_count]

\* A part of the report text that is not a token-usage block.
Text(name) ==
    [heading |-> name, prompt_tokens |-> 0, completion_tokens |-> 0,
     total_tokens |-> 0, call_count |-> 0]

\* "Append token usage summary to the report": report + "\n\n" +
\* token_summary when the usage has total_tokens > 0.
AppendTokenSummary(report, token_usage) ==
    IF token_usage.available /\ token_usage.total_tokens > 0
    THEN Append(report, format_token_summary_markdown(token_usage))
    ELSE report

\* run() begins: the research, the introduction and the sections are made
\* by LLM calls.
StartFlow(kind) ==
    /\ report_flow.pc = "idle"
    /\ report_flow' = [pc |-> "research", kind |-> kind, report |-> <<>>]
    /\ flow_usage' = ZeroTracker
    /\ nFlowCalls' = 0

\* One LLM call of the flow; its usage is added to the tracker.
FlowLLMCall(prompt_tokens, completion_tokens) ==
    /\ report_flow.pc = "research"
    /\ nFlowCalls < MaxFlowCalls
    /\ nFlowCalls' = nFlowCalls + 1
    /\ flow_usage' =
          IF prompt_tokens + completion_tokens > 0
          THEN [prompt_tokens |-> flow_usage.prompt_tokens + prompt_tokens,
                completion_tokens |-> flow_usage.completion_tokens + completion_tokens,
                total_tokens |-> flow_usage.total_tokens + prompt_tokens
                                     + completion_tokens,
                call_count |-> flow_usage.call_count + 1]
          ELSE flow_usage
    /\ UNCHANGED report_flow

\* BasicReport.run: write_report returns the report text.
write_report ==
    /\ report_flow.pc = "research"
    /\ report_flow.kind = "basic"
    /\ report_flow' = [report_flow EXCEPT !.pc = "run_append",
                                          !.report = <<Text("report")>>]
    /\ UNCHANGED <<flow_usage, nFlowCalls>>

\* DetailedReport._construct_detailed_report: introduction, table of
\* contents, body and conclusion, and the token usage summary appended.
construct_detailed_report ==
    /\ report_flow.pc = "research"
    /\ report_flow.kind = "detailed"
    /\ report_flow' = [report_flow EXCEPT !.pc = "run_append",
          !.report = AppendTokenSummary(
                         <<Text("introduction"), Text("toc"), Text("body"),
                           Text("conclusion")>>, flow_token_usage)]
    /\ UNCHANGED <<flow_usage, nFlowCalls>>

\* The end of run() in both flows: the token usage summary is appended to
\* the report and the report is returned.
RunAppend ==
    /\ report_flow.pc = "run_append"
    /\ report_flow' = [report_flow EXCEPT !.pc = "returned",
          !.report = AppendTokenSummary(report_flow.report, flow_token_usage)]
    /\ UNCHANGED <<flow_usage, nFlowCalls>>

\* The report has been handed over; another flow may run.
FlowDone ==
    /\ report_flow.pc = "returned"
    /\ report_flow' = IdleFlow
    /\ UNCHANGED <<flow_usage, nFlowCalls>>

\* The other subsystems stand still.
FlowFrame == UNCHANGED <<creditVars, trackerVars, researchVars,
    dispatchVars, writerVars, documentVars, chatVars, nestedVars,
    retryVars, generateVars, deepVars, trimVars, subtopicVars, storeVars,
    bridgeVars, userChatVars>>

NextFlow ==
    \/ \E kind \in FlowKinds : StartFlow(kind) /\ FlowFrame
    \/ \E tokens \in FlowCallTokens :
          FlowLLMCall(tokens[1], tokens[2]) /\ FlowFrame
    \/ write_report /\ FlowFrame
    \/ construct_detailed_report /\ FlowFrame
    \/ RunAppend /\ FlowFrame
    \/ FlowDone /\ FlowFrame

(***************************************************************************)
(*                         CLAIMS: REPORT FLOWS                            *)
(***************************************************************************)

\* The token-usage blocks of the report text.
TokenUsageBlocks ==
    {i \in 1..Len(report_flow.report) :
        report_flow.report[i].heading = "Token Usage Report"}

\* C19: for each report flow, when get_token_usage() reports total_tokens = 0
\* the report returned by run() is unmodified, and when it reports
\* total_tokens > 0 the returned report has exactly one markdown token-usage
\* block appended, equal to format_token_summary_markdown of that usage.
C19_OneTokenUsageBlock ==
    report_flow.pc = "returned" =>
        IF flow_token_usage.total_tokens = 0
        THEN TokenUsageBlocks = {}
        ELSE /\ TokenUsageBlocks = {Len(report_flow.report)}
             /\ report_flow.report[Len(report_flow.report)] =
                    format_token_summary_markdown(flow_token_usage)

(***************************************************************************)
(*                          STREAM RESPONSE                                *)
(***************************************************************************)

\* The calls of stream_response; a call's state is its locals only, so
\* calls under way at once do not affect each other.
StreamCalls == {"c1"}

max_retries == 3

\* base_delay = 2.0 seconds.
base_delay == 2

\* Chunks one attempt streams at most.
MaxChunks == 2

\* is_rate_limit: the exception's text holds "429", "rate_limit", "too many
\* requests", "tokens per min" or "rate limit"; any other exception.
StreamErrors == {"rate_limit", "other"}

\* The websocket argument: a socket, or None.
Websockets == {"socket", "none"}

\* The k-th chunk of content that attempt n received.
Chunk(n, k) == <<n, k>>

\* calls: llm.astream calls made; waits: the delays slept, in order;
\* errors: the exceptions caught, in order; response, attempt_response and
\* attempt_paragraph: the chunks each string is made of; sent: chunks of
\* content handed to websocket.send_json; notices: retry notices handed to
\* it; warned: the rate-limit warning was handed to it; stream: the outputs
\* of the "report" messages handed to it, in order.
IdleStreamCall ==
    [pc |-> "idle", websocket |-> "none", attempt |-> 0, calls |-> 0,
     waits |-> <<>>, errors |-> <<>>, response |-> <<>>,
     attempt_response |-> <<>>, attempt_paragraph |-> <<>>,
     attempt_first_chunk_sent |-> FALSE, sent |-> 0, notices |-> 0,
     warned |-> FALSE, stream |-> <<>>]

InitRetry == sr = [c \in StreamCalls |-> IdleStreamCall]

\* The mutant of Delay: the delay grows by base_delay per attempt.
DelayLinear(attempt) == base_delay * attempt

\* delay = base_delay * (2 ** (attempt - 1))
Delay(attempt) == base_delay * 2 ^ (attempt - 1)

\* _send_output(content, websocket): empty content is skipped; with a
\* socket the content goes to send_json, and an exception of the send is
\* logged and swallowed.  The number of chunks handed to the socket.
send_output(call, content) ==
    IF call.websocket = "socket" THEN call.sent + Len(content) ELSE call.sent

\* The "Retrying after rate limit error (attempt n/3 ...)" text, sent before
\* the chunks of attempt n; it is no chunk of any attempt.
RetryNotice(attempt) == <<attempt, 0>>

\* The "Rate Limit Error" text sent when the last attempt has failed.
RateLimitWarning == <<max_retries + 1, 0>>

\* The mutant of report_message: the content is not sent.
report_message_skipped(call, content) == call.stream

\* _send_output wraps every content in {"type": "report", "output": content}:
\* the report stream of the socket after the content is sent.
report_message(call, content) ==
    IF call.websocket = "socket" THEN call.stream \o content ELSE call.stream

\* stream_response is called: the for loop over range(max_retries + 1)
\* begins.
stream_response(c, websocket) ==
    /\ sr[c].pc = "idle"
    /\ sr' = [sr EXCEPT ![c] =
          [IdleStreamCall EXCEPT !.pc = "attempt", !.websocket = websocket]]

\* The mutant of ResetResponse: the response is kept over a retry.
KeepResponse(call) == call.response

\* if attempt > 0: response = ""
ResetResponse(call) == IF call.attempt > 0 THEN <<>> ELSE call.response

\* One iteration of the loop up to the astream call: the attempt's locals
\* are reset; on a retry the response is reset, the retry notice is sent
\* and the delay is slept first.
BeginAttempt(c) ==
    /\ sr[c].pc = "attempt"
    /\ sr' = [sr EXCEPT ![c] =
          [@ EXCEPT !.pc = "astream",
                    !.calls = @ + 1,
                    !.attempt_response = <<>>,
                    !.attempt_paragraph = <<>>,
                    !.attempt_first_chunk_sent = FALSE,
                    !.response = ResetResponse(sr[c]),
                    !.notices = IF sr[c].attempt > 0 /\ sr[c].websocket = "socket"
                                THEN @ + 1 ELSE @,
                    !.stream = IF sr[c].attempt > 0
                               THEN report_message(sr[c],
                                        <<RetryNotice(sr[c].attempt)>>)
                               ELSE @,
                    !.waits = IF sr[c].attempt > 0
                              THEN Append(@, Delay(sr[c].attempt))
                              ELSE @]]

\* A chunk of content arrives and is accumulated; the buffer is sent and
\* cleared on the first chunk, and when it holds a newline or 100
\* characters (fills).
StreamChunk(c, fills) ==
    /\ sr[c].pc = "astream"
    /\ Len(sr[c].attempt_response) < MaxChunks
    /\ LET chunk == Chunk(sr[c].attempt, Len(sr[c].attempt_response) + 1)
           paragraph == Append(sr[c].attempt_paragraph, chunk)
           should_send == ~sr[c].attempt_first_chunk_sent \/ fills
       IN  sr' = [sr EXCEPT ![c] =
              [@ EXCEPT !.attempt_response = Append(@, chunk),
                        !.response = Append(@, chunk),
                        !.attempt_paragraph =
                            IF should_send THEN <<>> ELSE paragraph,
                        !.attempt_first_chunk_sent = @ \/ should_send,
                        !.sent = IF should_send
                                 THEN send_output(sr[c], paragraph) ELSE @,
                        !.stream = IF should_send
                                   THEN report_message(sr[c], paragraph)
                                   ELSE @]]

\* The stream ends: what is left in the buffer is sent, break, and the
\* response is returned.
StreamEnds(c) ==
    /\ sr[c].pc = "astream"
    /\ sr' = [sr EXCEPT ![c] =
          [@ EXCEPT !.pc = "returned",
                    !.sent = send_output(sr[c], sr[c].attempt_paragraph),
                    !.stream = report_message(sr[c], sr[c].attempt_paragraph)]]

\* The attempt raises.
StreamRaises(c, error) ==
    /\ sr[c].pc = "astream"
    /\ sr' = [sr EXCEPT ![c].pc = "except", ![c].errors = Append(@, error)]

\* except Exception: a rate-limit error continues the loop while attempt <
\* max_retries; on the last attempt it sends the buffer and the warning and
\* returns the partial response; any other exception sends the buffer and
\* is re-raised.
HandleStreamError(c) ==
    /\ sr[c].pc = "except"
    /\ LET error == sr[c].errors[Len(sr[c].errors)]
           flushed == send_output(sr[c], sr[c].attempt_paragraph)
           remaining == report_message(sr[c], sr[c].attempt_paragraph)
       IN  sr' = [sr EXCEPT ![c] =
              IF error = "rate_limit" /\ sr[c].attempt < max_retries
              THEN [@ EXCEPT !.pc = "attempt", !.attempt = @ + 1]
              ELSE IF error = "rate_limit"
              THEN [@ EXCEPT !.pc = "returned", !.sent = flushed,
                             !.warned = (sr[c].websocket = "socket"),
                             !.stream =
                                 IF sr[c].websocket = "socket"
                                 THEN Append(remaining, RateLimitWarning)
                                 ELSE @]
              ELSE [@ EXCEPT !.pc = "raised", !.sent = flushed,
                             !.stream = remaining]]

\* The caller has the response or the exception.
StreamDone(c) ==
    /\ sr[c].pc \in {"returned", "raised"}
    /\ sr' = [sr EXCEPT ![c] = IdleStreamCall]

\* The other subsystems stand still.
RetryFrame == UNCHANGED <<creditVars, trackerVars, researchVars,
    dispatchVars, writerVars, documentVars, chatVars, nestedVars, flowVars,
    generateVars, deepVars, trimVars, subtopicVars, storeVars, bridgeVars,
    userChatVars>>

\* What the call c does next.
StreamStep(c) ==
    \/ \E websocket \in Websockets : stream_response(c, websocket) /\ RetryFrame
    \/ BeginAttempt(c) /\ RetryFrame
    \/ \E fills \in BOOLEAN : StreamChunk(c, fills) /\ RetryFrame
    \/ StreamEnds(c) /\ RetryFrame
    \/ \E error \in StreamErrors : StreamRaises(c, error) /\ RetryFrame
    \/ HandleStreamError(c) /\ RetryFrame
    \/ StreamDone(c) /\ RetryFrame

NextRetry == \E c \in StreamCalls : StreamStep(c)

\* Each call is a coroutine the event loop keeps running: the sleeps end
\* and every stream of the model ends or raises.
RetryFairness == \A c \in StreamCalls : WF_vars(StreamStep(c))

(***************************************************************************)
(*                       CLAIMS: STREAM RESPONSE                           *)
(***************************************************************************)

\* The delays of the first, second and third retry.
Backoff == <<2, 4, 8>>

\* Retries only after rate-limit errors, at most max_retries of them, each
\* after its delay; any other exception is the last thing that happened.
RetryDiscipline(c) ==
    /\ sr[c].calls <= 4
    /\ Len(sr[c].waits) <= 3
    /\ sr[c].waits = SubSeq(Backoff, 1, Len(sr[c].waits))
    /\ sr[c].pc \in {"astream", "returned", "except", "raised"} =>
          sr[c].calls = Len(sr[c].waits) + 1
    /\ \A i \in 1..Len(sr[c].waits) : sr[c].errors[i] = "rate_limit"
    /\ \A i \in 1..Len(sr[c].errors) :
          sr[c].errors[i] = "other" =>
              /\ i = Len(sr[c].errors)
              /\ sr[c].pc \in {"except", "raised"}
              /\ sr[c].calls = i
    /\ sr[c].pc = "raised" =>
          sr[c].errors[Len(sr[c].errors)] = "other"

\* C20: stream_response retries only after a rate-limit error, at most 3
\* additional times (at most 4 model calls in total), waiting 2s, 4s and 8s
\* before the first, second and third retry, and always terminates; any
\* other failure propagates to the caller without a retry.
C20_BoundedRateLimitRetries ==
    /\ [](\A c \in StreamCalls : RetryDiscipline(c))
    /\ \A c \in StreamCalls :
          (sr[c].pc = "attempt") ~> (sr[c].pc \in {"returned", "raised"})

\* C20 witness: the call gave up after the third retry failed on a rate
\* limit, having slept 2s, 4s and 8s.
C20_Witness ==
    /\ sr["c1"].pc = "returned"
    /\ sr["c1"].calls = 4
    /\ sr["c1"].waits = <<2, 4, 8>>
    /\ sr["c1"].errors = <<"rate_limit", "rate_limit", "rate_limit", "rate_limit">>

\* The response holds exactly the chunks of the attempt under way or last
\* made.
LastAttemptOnly(c) ==
    sr[c].pc \in {"astream", "except", "returned", "raised"} =>
        /\ sr[c].response = sr[c].attempt_response
        /\ \A i \in 1..Len(sr[c].response) :
              sr[c].response[i][1] = sr[c].attempt

\* Every attempt of the call failed on a rate limit and the last failure
\* has been handled.
Exhausted(c) ==
    /\ Len(sr[c].errors) = max_retries + 1
    /\ sr[c].errors[max_retries + 1] = "rate_limit"
    /\ sr[c].pc # "except"

\* C21: the value stream_response returns holds only text of its last
\* attempt: after a successful retry exactly that attempt's text, and when
\* rate-limit errors exhaust the retries the final attempt's partial text is
\* returned, no exception is raised, and the warning is sent to the socket.
C21_ReturnsLastAttemptOnly ==
    \A c \in StreamCalls :
        /\ LastAttemptOnly(c)
        /\ Exhausted(c) =>
              /\ sr[c].pc = "returned"
              /\ sr[c].websocket = "socket" => sr[c].warned
        /\ sr[c].warned => Exhausted(c)

\* C21 witness: the fourth attempt streamed one chunk and failed on a rate
\* limit after earlier attempts had streamed chunks too; the call returned
\* that one chunk and warned the socket.
C21_Witness ==
    /\ Exhausted("c1")
    /\ sr["c1"].pc = "returned"
    /\ sr["c1"].response = <<Chunk(3, 1)>>
    /\ sr["c1"].sent >= 3
    /\ sr["c1"].warned

\* A rate-limit failure of the call c is followed by a retry.
RetryFollows(c) ==
    /\ sr[c].pc = "except"
    /\ sr'[c].pc = "attempt"
    /\ sr'[c].attempt = sr[c].attempt + 1

\* C22: when an attempt fails with a rate-limit error and a retry follows,
\* the partial text still in the buffer is flushed to the socket before the
\* retry continues, so no received chunk is silently dropped.
C22_BufferFlushedBeforeRetry ==
    [][\A c \in StreamCalls :
          RetryFollows(c) /\ sr[c].websocket = "socket" =>
              sr'[c].sent = sr[c].sent + Len(sr[c].attempt_paragraph)]_vars

\* The call c has returned its text to a caller that passed a socket.
ReturnedToSocket(c) ==
    sr[c].pc = "returned" /\ sr[c].websocket = "socket"

\* C39 as stated: for every stream_response call with a socket, the
\* concatenation of the report chunks delivered to the socket equals the
\* text returned to the caller; text streamed during a failed attempt and
\* retry notices never remain in the client's stream.
C39_StreamEqualsReturn ==
    \A c \in StreamCalls :
        ReturnedToSocket(c) => sr[c].stream = sr[c].response

\* The call completed on its first attempt: no attempt of it failed.
FirstAttemptOnly(call) == call.attempt = 0 /\ call.errors = <<>>

\* C39, amended: for every stream_response call with a socket that completes
\* on its first attempt, the concatenation of the report chunks sent to the
\* socket equals the text returned to the caller.
C39_StreamEqualsReturnWithoutRetry ==
    \A c \in StreamCalls :
        ReturnedToSocket(c) /\ FirstAttemptOnly(sr[c]) =>
            sr[c].stream = sr[c].response

\* C39 witness: a first attempt streamed two chunks, the second one left
\* in the buffer until the stream ended, and the call returned.
C39_Witness ==
    /\ ReturnedToSocket("c1")
    /\ FirstAttemptOnly(sr["c1"])
    /\ sr["c1"].response = <<Chunk(0, 1), Chunk(0, 2)>>
    /\ sr["c1"].stream = sr["c1"].response

(***************************************************************************)
(*                          GENERATE REPORT                                *)
(***************************************************************************)

\* The websocket argument: a connected socket, one whose client is gone
\* (send_json raises), or None.
ReportSockets == {"connected", "gone", "none"}

\* What create_chat_completion does: it returns a report or raises; the
\* exception's text matches the rate-limit patterns or does not.
Completions == {"report_a", "report_b", "rate_limit", "other"}

CompletionErrors == {"rate_limit", "other"}

\* calls: the message forms create_chat_completion was called with; errors:
\* the exceptions caught, in order; out: what reached the socket; recorded:
\* the add() calls made on the run's token tracker.
IdleGenerate ==
    [pc |-> "idle", websocket |-> "none", calls |-> <<>>, errors |-> <<>>,
     out |-> <<>>, report |-> "", recorded |-> 0]

InitGenerate == gr = IdleGenerate

\* if websocket: try: await websocket.send_json(..) except: pass
SendGuarded(call, message) ==
    IF call.websocket = "connected" THEN Append(call.out, message)
    ELSE call.out

\* generate_report is called; a context above the token limit is truncated
\* and the socket is told.
generate_report(websocket, too_large) ==
    /\ gr.pc = "idle"
    /\ LET call == [IdleGenerate EXCEPT !.websocket = websocket]
       IN  gr' = [call EXCEPT
                    !.pc = "first",
                    !.out = IF too_large
                            THEN SendGuarded(call, "context_truncated")
                            ELSE @]

\* Whether a create_chat_completion call of generate_report is given
\* token_tracker: the first call and the retry after a rate-limit error
\* are, the retry after any other error is not.
PassesTracker(errors) == errors = <<>> \/ errors[1] = "rate_limit"

\* stream_response, after a completed stream: token_tracker.add(...) with
\* the usage of the last chunk, if a tracker was passed down.
RecordUsage(recorded, tracker_passed) ==
    IF tracker_passed THEN recorded + 1 ELSE recorded

\* The first create_chat_completion, with the system/user split.
FirstCompletion(completion) ==
    /\ gr.pc = "first"
    /\ gr' = IF completion \in CompletionErrors
             THEN [gr EXCEPT !.pc = "except1",
                             !.calls = Append(@, "split"),
                             !.errors = Append(@, completion)]
             ELSE [gr EXCEPT !.pc = "returned",
                             !.calls = Append(@, "split"),
                             !.report = completion,
                             !.recorded = RecordUsage(@, PassesTracker(gr.errors))]

\* except Exception as e1: a rate-limit error is reported to the socket;
\* either way the collapsed form is tried.
FirstExcept ==
    /\ gr.pc = "except1"
    /\ gr' = [gr EXCEPT
                !.pc = "second",
                !.out = IF gr.errors[1] = "rate_limit"
                        THEN SendGuarded(gr, "RATE_LIMIT_ERROR") ELSE @]

\* The second create_chat_completion, with one user turn.
SecondCompletion(completion) ==
    /\ gr.pc = "second"
    /\ gr' = IF completion \in CompletionErrors
             THEN [gr EXCEPT !.pc = "except2",
                             !.calls = Append(@, "collapsed"),
                             !.errors = Append(@, completion)]
             ELSE [gr EXCEPT !.pc = "returned",
                             !.calls = Append(@, "collapsed"),
                             !.report = completion,
                             !.recorded = RecordUsage(@, PassesTracker(gr.errors))]

\* The mutant of SecondCaught: only rate-limit errors are caught.
SecondCaughtRateLimit(error) == error = "rate_limit"

\* except Exception as e2, in both branches.
SecondCaught(error) == error \in CompletionErrors

\* except Exception as e2: report = ""; after a rate-limited first attempt
\* the socket is told again.
SecondExcept ==
    /\ gr.pc = "except2"
    /\ gr' = IF SecondCaught(gr.errors[2])
             THEN [gr EXCEPT
                     !.pc = "returned",
                     !.report = "",
                     !.out = IF gr.errors[1] = "rate_limit"
                             THEN SendGuarded(gr, "RATE_LIMIT_ERROR") ELSE @]
             ELSE [gr EXCEPT !.pc = "raised"]

\* The caller has the report or the exception.
GenerateDone ==
    /\ gr.pc \in {"returned", "raised"}
    /\ gr' = IdleGenerate

\* The other subsystems stand still.
GenerateFrame == UNCHANGED <<creditVars, trackerVars, researchVars,
    dispatchVars, writerVars, documentVars, chatVars, nestedVars, flowVars,
    retryVars, deepVars, trimVars, subtopicVars, storeVars, bridgeVars,
    userChatVars>>

NextGenerate ==
    \/ \E websocket \in ReportSockets, too_large \in BOOLEAN :
          generate_report(websocket, too_large) /\ GenerateFrame
    \/ \E completion \in Completions :
          FirstCompletion(completion) /\ GenerateFrame
    \/ FirstExcept /\ GenerateFrame
    \/ \E completion \in Completions :
          SecondCompletion(completion) /\ GenerateFrame
    \/ SecondExcept /\ GenerateFrame
    \/ GenerateDone /\ GenerateFrame

(***************************************************************************)
(*                       CLAIMS: GENERATE REPORT                           *)
(***************************************************************************)

\* C23: generate_report never raises to its caller from the generation
\* step: it calls the chat-completion facade at most twice (the system/user
\* split, then one retry with the messages collapsed into one user turn) and
\* returns an empty report when both fail.
C23_GenerateReportNeverRaises ==
    /\ gr.pc # "raised"
    /\ gr.calls \in {<<>>, <<"split">>, <<"split", "collapsed">>}
    /\ Len(gr.errors) <= Len(gr.calls)
    /\ gr.pc = "returned" /\ Len(gr.errors) = 2 => gr.report = ""
    /\ gr.pc = "returned" /\ Len(gr.errors) < 2 => gr.report # ""

\* C23 witness: both calls failed, the first on a rate limit, the second
\* otherwise; the socket was told twice and the empty report returned.
C23_Witness ==
    /\ gr.pc = "returned"
    /\ gr.calls = <<"split", "collapsed">>
    /\ gr.errors = <<"rate_limit", "other">>
    /\ gr.out = <<"RATE_LIMIT_ERROR", "RATE_LIMIT_ERROR">>
    /\ gr.report = ""

\* C38: every successful LLM exchange made by generate_report is recorded
\* on the run's token tracker, whichever attempt produced the report: the
\* first call, the rate-limit retry, or the collapsed-message fallback after
\* a failure that is not a rate limit.
C38_EveryExchangeRecorded ==
    gr.pc = "returned" =>
        gr.recorded = IF gr.report # "" THEN 1 ELSE 0

(***************************************************************************)
(*                           DEEP RESEARCH                                 *)
(***************************************************************************)

\* deep_research_breadth and deep_research_depth of the configuration.
MaxBreadth == 4

MaxDepth == 3

\* deep_research_concurrency, default 2.
concurrency_limit == 2

\* What the i-th sub-query of the level-k call found: one learning with its
\* citation and one visited URL.
Found(k, i) == <<k, i>>

NoFindings == [learnings |-> {}, citations |-> {}, visited_urls |-> {}]

\* The frame of one deep_research call.  status: per serp query, where its
\* process_query task is.
Frame(breadth, depth, learnings, citations, visited_urls) ==
    [pc |-> "generate", breadth |-> breadth, depth |-> depth,
     status |-> <<>>,
     learnings |-> learnings, citations |-> citations,
     visited_urls |-> visited_urls,
     all_learnings |-> learnings, all_citations |-> citations,
     all_visited_urls |-> visited_urls]

TraceEntry(breadth, depth) ==
    [breadth |-> breadth, depth |-> depth, queries |-> 0, results |-> 0,
     recursed |-> 0, reduced |-> FALSE, settled_at_reduce |-> TRUE]

InitDeep ==
    /\ deep_pc = "idle"
    /\ deep_stack = <<>>
    /\ deep_trace = <<>>
    /\ deep_result = NoFindings

\* The innermost call, the one that is running.
Level == Len(deep_stack)

Current == deep_stack[Level]

\* run(): deep_research(query, breadth=self.breadth, depth=self.depth).
deep_research(breadth, depth) ==
    /\ deep_pc = "idle"
    /\ deep_pc' = "active"
    /\ deep_stack' = <<Frame(breadth, depth, {}, {}, {})>>
    /\ deep_trace' = <<TraceEntry(breadth, depth)>>
    /\ deep_result' = NoFindings

\* generate_search_queries(query, num_queries=breadth) returns at most
\* breadth queries; one process_query task is made for each.
generate_search_queries(n) ==
    /\ deep_pc = "active"
    /\ Current.pc = "generate"
    /\ n <= Current.breadth
    /\ deep_stack' = [deep_stack EXCEPT
          ![Level] = [@ EXCEPT !.pc = "queries",
                               !.status = [i \in 1..n |-> "waiting"]]]
    /\ deep_trace' = [deep_trace EXCEPT ![Level].queries = n]
    /\ UNCHANGED <<deep_pc, deep_result>>

\* generate_search_queries raises: nothing in deep_research catches it.
GenerateQueriesRaises ==
    /\ deep_pc = "active"
    /\ Current.pc = "generate"
    /\ deep_pc' = "raised"
    /\ deep_stack' = <<>>
    /\ UNCHANGED <<deep_trace, deep_result>>

InProgress(frame) ==
    Cardinality({i \in 1..Len(frame.status) : frame.status[i] = "running"})

\* The mutant of SemaphoreFree: no limit.
SemaphoreUnbounded(frame) == TRUE

\* asyncio.Semaphore(self.concurrency_limit)
SemaphoreFree(frame) == InProgress(frame) < concurrency_limit

\* async with semaphore: the task starts its research session.
ProcessQueryAcquire(i) ==
    /\ deep_pc = "active"
    /\ Current.pc = "queries"
    /\ i \in 1..Len(Current.status)
    /\ Current.status[i] = "waiting"
    /\ SemaphoreFree(Current)
    /\ deep_stack' = [deep_stack EXCEPT ![Level].status[i] = "running"]
    /\ UNCHANGED <<deep_pc, deep_trace, deep_result>>

\* The task returns its result, or catches an exception and returns None;
\* the semaphore is released.
ProcessQuerySettles(i, ok) ==
    /\ deep_pc = "active"
    /\ Current.pc = "queries"
    /\ i \in 1..Len(Current.status)
    /\ Current.status[i] = "running"
    /\ deep_stack' = [deep_stack EXCEPT
          ![Level].status[i] = IF ok THEN "done" ELSE "failed"]
    /\ UNCHANGED <<deep_pc, deep_trace, deep_result>>

Settled(frame) ==
    \A i \in 1..Len(frame.status) : frame.status[i] \in {"done", "failed"}

\* results = [r for r in results if r is not None]
Results(frame) == {i \in 1..Len(frame.status) : frame.status[i] = "done"}

\* The mutant of Gathered: the reduction starts with the first result.
GatheredFirst(frame) ==
    \E i \in 1..Len(frame.status) : frame.status[i] \in {"done", "failed"}

\* results = await asyncio.gather(*tasks)
Gathered(frame) == Settled(frame)

\* The loop that collects the results of the level.
Collect(frame, k) ==
    LET found == {Found(k, i) : i \in Results(frame)}
    IN  [frame EXCEPT !.all_learnings = @ \cup found,
                      !.all_citations = @ \cup found,
                      !.all_visited_urls = @ \cup found]

\* The mutant of RecursionArguments: the recursive call is given what the
\* level itself was given.
RecursionArgumentsUnmerged(frame) ==
    Frame(Max(2, frame.breadth \div 2), frame.depth - 1,
          frame.learnings, frame.citations, frame.visited_urls)

\* self.deep_research(breadth=new_breadth, depth=new_depth,
\* learnings=all_learnings, citations=all_citations,
\* visited_urls=all_visited_urls)
RecursionArguments(frame) ==
    Frame(Max(2, frame.breadth \div 2), frame.depth - 1,
          frame.all_learnings, frame.all_citations, frame.all_visited_urls)

\* The mutant of Recurses: the next level is entered whatever the results.
RecursesAlways(frame) == frame.depth > 1

\* if depth > 1 and len(results) > 0
Recurses(frame) == frame.depth > 1 /\ Results(frame) # {}

\* gather returns: the results are collected, then the next level is
\* entered once or the call goes on to return.
Reduce ==
    /\ deep_pc = "active"
    /\ Current.pc = "queries"
    /\ Gathered(Current)
    /\ LET frame == Collect(Current, Level)
           entry == [deep_trace[Level] EXCEPT
                        !.results = Cardinality(Results(Current)),
                        !.reduced = TRUE,
                        !.settled_at_reduce = Settled(Current)]
       IN  IF Recurses(Current)
           THEN LET inner == RecursionArguments(frame)
                IN  /\ deep_stack' =
                          Append([deep_stack EXCEPT
                                     ![Level] = [frame EXCEPT !.pc = "recursing"]],
                                 inner)
                    /\ deep_trace' =
                          Append([deep_trace EXCEPT
                                     ![Level] = [entry EXCEPT !.recursed = @ + 1]],
                                 TraceEntry(inner.breadth, inner.depth))
           ELSE /\ deep_stack' = [deep_stack EXCEPT
                                     ![Level] = [frame EXCEPT !.pc = "return"]]
                /\ deep_trace' = [deep_trace EXCEPT ![Level] = entry]
    /\ UNCHANGED <<deep_pc, deep_result>>

Findings(frame) ==
    [learnings |-> frame.all_learnings, citations |-> frame.all_citations,
     visited_urls |-> frame.all_visited_urls]

\* The call returns; the caller, if it is a deep_research call, merges the
\* deeper results into its own.
DeepReturn ==
    /\ deep_pc = "active"
    /\ Current.pc = "return"
    /\ IF Level = 1
       THEN /\ deep_pc' = "returned"
            /\ deep_result' = Findings(Current)
            /\ deep_stack' = <<>>
       ELSE /\ deep_stack' =
                  [SubSeq(deep_stack, 1, Level - 1) EXCEPT
                      ![Level - 1] =
                          [@ EXCEPT
                              !.pc = "return",
                              !.all_learnings = @ \cup Current.all_learnings,
                              !.all_citations = @ \cup Current.all_citations,
                              !.all_visited_urls =
                                  @ \cup Current.all_visited_urls]]
            /\ UNCHANGED <<deep_pc, deep_result>>
    /\ UNCHANGED deep_trace

\* run() goes on with the results, or the exception reaches its caller.
DeepDone ==
    /\ deep_pc \in {"returned", "raised"}
    /\ deep_pc' = "idle"
    /\ deep_stack' = <<>>
    /\ deep_trace' = <<>>
    /\ deep_result' = NoFindings

\* The other subsystems stand still.
DeepFrame == UNCHANGED <<creditVars, trackerVars, researchVars,
    dispatchVars, writerVars, documentVars, chatVars, nestedVars, flowVars,
    retryVars, generateVars, trimVars, subtopicVars, storeVars, bridgeVars,
    userChatVars>>

NextDeep ==
    \/ \E b \in 1..MaxBreadth, d \in 1..MaxDepth :
          deep_research(b, d) /\ DeepFrame
    \/ \E n \in 0..MaxBreadth : generate_search_queries(n) /\ DeepFrame
    \/ GenerateQueriesRaises /\ DeepFrame
    \/ \E i \in 1..MaxBreadth : ProcessQueryAcquire(i) /\ DeepFrame
    \/ \E i \in 1..MaxBreadth, ok \in BOOLEAN :
          ProcessQuerySettles(i, ok) /\ DeepFrame
    \/ Reduce /\ DeepFrame
    \/ DeepReturn /\ DeepFrame
    \/ DeepDone /\ DeepFrame

(***************************************************************************)
(*                        CLAIMS: DEEP RESEARCH                            *)
(***************************************************************************)

RECURSIVE QueriesIssued(_)
\* The search queries issued by the first k calls.
QueriesIssued(k) ==
    IF k = 0 THEN 0 ELSE deep_trace[k].queries + QueriesIssued(k - 1)

\* What every deep_research call made so far has in common: its arguments
\* follow from its caller's, it issues at most breadth queries, and the
\* nesting is no deeper than the outermost depth.
RecursionShape ==
    /\ Len(deep_trace) > 0 => Len(deep_trace) <= deep_trace[1].depth
    /\ \A k \in 1..Len(deep_trace) :
          /\ deep_trace[k].depth >= 1
          /\ deep_trace[k].queries <= deep_trace[k].breadth
          /\ deep_trace[k].recursed <= 1
          /\ deep_trace[k].depth = 1 => deep_trace[k].recursed = 0
          /\ k > 1 =>
                /\ deep_trace[k].depth = deep_trace[k - 1].depth - 1
                /\ deep_trace[k].breadth =
                      Max(2, deep_trace[k - 1].breadth \div 2)
                /\ deep_trace[k - 1].recursed = 1

\* The outermost call had depth 2 and breadth 4 and has returned.
ExampleReturned ==
    /\ deep_pc = "returned"
    /\ deep_trace[1].depth = 2
    /\ deep_trace[1].breadth = 4

\* C24: deep_research recurses exactly once per depth level (never once per
\* sub-result), with depth reduced by one and breadth max(2, breadth // 2),
\* and not at depth 1; for depth 2 and breadth 4 it makes exactly one
\* recursive call, with breadth 2, and issues at most breadth_0 + breadth_1
\* queries; every call terminates.
C24_RecursesOncePerLevel ==
    /\ RecursionShape
    /\ \A k \in 1..Len(deep_trace) :
          deep_trace[k].reduced /\ deep_trace[k].depth > 1 =>
              deep_trace[k].recursed = 1
    /\ ExampleReturned =>
          /\ Len(deep_trace) = 2
          /\ deep_trace[2].breadth = 2
          /\ QueriesIssued(Len(deep_trace)) <= 4 + 2

\* C24, amended: deep_research recurses at most once per depth level, and
\* exactly once when its depth is above 1 and at least one sub-query of the
\* level succeeded; the rest as claimed, the example making one recursive
\* call when a sub-query of the first level succeeded and none otherwise.
C24_RecursesOncePerLevelWithResults ==
    /\ RecursionShape
    /\ \A k \in 1..Len(deep_trace) :
          deep_trace[k].reduced =>
              deep_trace[k].recursed =
                  IF deep_trace[k].depth > 1 /\ deep_trace[k].results > 0
                  THEN 1 ELSE 0
    /\ ExampleReturned =>
          /\ Len(deep_trace) = IF deep_trace[1].results > 0 THEN 2 ELSE 1
          /\ Len(deep_trace) = 2 => deep_trace[2].breadth = 2
          /\ QueriesIssued(Len(deep_trace)) <= 4 + 2

\* C24 witness: depth 2 and breadth 4 returned after 4 queries at the first
\* level and 2 at the second.
C24_Witness ==
    /\ ExampleReturned
    /\ Len(deep_trace) = 2
    /\ deep_trace[1].queries = 4
    /\ deep_trace[1].results = 3
    /\ deep_trace[2].queries = 2
    /\ deep_trace[2].reduced
    /\ deep_trace[2].recursed = 0

\* C25: at every moment of one deep_research level at most
\* concurrency_limit sub-query research sessions are in progress, and the
\* level's results are reduced only after every sub-query has settled.
C25_BoundedSiblingConcurrency ==
    /\ \A k \in 1..Len(deep_stack) :
          /\ InProgress(deep_stack[k]) <= concurrency_limit
          /\ deep_stack[k].pc \in {"recursing", "return"} =>
                Settled(deep_stack[k])
    /\ \A k \in 1..Len(deep_trace) : deep_trace[k].settled_at_reduce

\* C25 witness: of four sub-queries one has finished, two are in
\* progress and one waits for the semaphore.
C25_Witness ==
    /\ deep_pc = "active"
    /\ Current.pc = "queries"
    /\ Current.status = <<"done", "running", "running", "waiting">>

\* C26: a depth level's results are fully merged before the single
\* recursive call for the next level is issued, so every learning, citation
\* and visited URL of shallower levels is available to the deeper level,
\* while nothing produced by a deeper level is visible to the processing of
\* a shallower level.
C26_ShallowerBeforeDeeper ==
    \A k \in 1..Len(deep_stack) :
        /\ \A j \in 1..(k - 1) : \A i \in Results(deep_stack[j]) :
              /\ Found(j, i) \in deep_stack[k].learnings
              /\ Found(j, i) \in deep_stack[k].citations
              /\ Found(j, i) \in deep_stack[k].visited_urls
        /\ deep_stack[k].pc # "return" =>
              \A f \in deep_stack[k].all_learnings
                         \cup deep_stack[k].all_citations
                         \cup deep_stack[k].all_visited_urls :
                  f[1] <= k

\* C26 witness: the third level is processing its sub-queries and holds
\* what the first and the second level found.
C26_Witness ==
    /\ Level = 3
    /\ Current.pc = "queries"
    /\ Found(1, 2) \in Current.learnings
    /\ Found(2, 1) \in Current.visited_urls
    /\ \E i \in 1..Len(Current.status) : Current.status[i] = "done"

(***************************************************************************)
(*                     TRIM CONTEXT TO WORD LIMIT                          *)
(***************************************************************************)

\* Items of a context list at most.
MaxItems == 3

\* Words of one item at most.
MaxItemWords == 3

\* MAX_CONTEXT_WORDS, 50000 in the source, scaled to the items above.
MAX_CONTEXT_WORDS == 3

\* A context item: a string, told apart by where it stood in the list.
Item(position, text_words) == [position |-> position, words |-> text_words]

\* The lists of n strings, by the number of words of each.
ContextLists ==
    UNION {[1..n -> 0..MaxItemWords] : n \in 0..MaxItems}

\* count_words(text): len(text.split())
count_words(item) == item.words

RECURSIVE TotalWords(_)
\* sum(count_words(item) for item in context)
TotalWords(context) ==
    IF context = <<>> THEN 0
    ELSE count_words(Head(context)) + TotalWords(Tail(context))

IdleTrim ==
    [pc |-> "idle", context_list |-> <<>>, max_words |-> MAX_CONTEXT_WORDS,
     next |-> 0, total_words |-> 0, trimmed_context |-> <<>>]

InitTrim == tm = IdleTrim

\* run(): trim_context_to_word_limit(context_with_citations,
\* max_words=MAX_CONTEXT_WORDS); the loop starts at the last item.
trim_context_to_word_limit(lengths) ==
    /\ tm.pc = "idle"
    /\ tm' = [IdleTrim EXCEPT
                !.pc = "loop",
                !.context_list = [i \in 1..Len(lengths) |-> Item(i, lengths[i])],
                !.next = Len(lengths)]

\* The mutant of Fits: the limit itself is not allowed.
FitsBelow(total_words, item_words, max_words) ==
    total_words + item_words < max_words

\* if total_words + words <= max_words
Fits(total_words, item_words, max_words) ==
    total_words + item_words <= max_words

\* for item in reversed(context_list): an item that fits is inserted at the
\* start of the result.
TrimKeep ==
    /\ tm.pc = "loop"
    /\ tm.next >= 1
    /\ LET item == tm.context_list[tm.next]
       IN  /\ Fits(tm.total_words, count_words(item), tm.max_words)
           /\ tm' = [tm EXCEPT
                        !.trimmed_context = <<item>> \o @,
                        !.total_words = @ + count_words(item),
                        !.next = @ - 1]

\* else: break
TrimBreak ==
    /\ tm.pc = "loop"
    /\ tm.next >= 1
    /\ ~Fits(tm.total_words, count_words(tm.context_list[tm.next]),
             tm.max_words)
    /\ tm' = [tm EXCEPT !.pc = "returned"]

\* The list is exhausted.
TrimExhausted ==
    /\ tm.pc = "loop"
    /\ tm.next = 0
    /\ tm' = [tm EXCEPT !.pc = "returned"]

\* run() joins the trimmed context.
TrimDone ==
    /\ tm.pc = "returned"
    /\ tm' = IdleTrim

\* The other subsystems stand still.
TrimFrame == UNCHANGED <<creditVars, trackerVars, researchVars,
    dispatchVars, writerVars, documentVars, chatVars, nestedVars, flowVars,
    retryVars, generateVars, deepVars, subtopicVars, storeVars, bridgeVars,
    userChatVars>>

NextTrim ==
    \/ \E lengths \in ContextLists :
          trim_context_to_word_limit(lengths) /\ TrimFrame
    \/ TrimKeep /\ TrimFrame
    \/ TrimBreak /\ TrimFrame
    \/ TrimExhausted /\ TrimFrame
    \/ TrimDone /\ TrimFrame

(***************************************************************************)
(*                 CLAIMS: TRIM CONTEXT TO WORD LIMIT                      *)
(***************************************************************************)

\* The call has returned for a list whose words exceed the limit.
TrimmedOverLimit ==
    /\ tm.pc = "returned"
    /\ TotalWords(tm.context_list) > tm.max_words

\* How many items of the input are not in the result.
NumDropped == Len(tm.context_list) - Len(tm.trimmed_context)

\* Their positions in the input.
Dropped == 1..NumDropped

\* The result is a run of the input ending at its last element, in the
\* original order, within the limit.
SuffixWithinLimit ==
    /\ Len(tm.trimmed_context) <= Len(tm.context_list)
    /\ tm.trimmed_context =
          SubSeq(tm.context_list, NumDropped + 1, Len(tm.context_list))
    /\ TotalWords(tm.trimmed_context) <= tm.max_words

\* C27: for a context list whose word count exceeds the limit,
\* trim_context_to_word_limit returns a contiguous run of items ending at
\* the input's last element, in original order, within the limit, to which
\* no dropped item could be added back without exceeding the limit.
C27_TrimKeepsMaximalSuffix ==
    TrimmedOverLimit =>
        /\ SuffixWithinLimit
        /\ \A i \in Dropped :
              TotalWords(tm.trimmed_context)
                  + count_words(tm.context_list[i]) > tm.max_words

\* C27, amended: ... to which the dropped item just before the run could
\* not be added back without exceeding the limit (the run is the longest
\* such run).
C27_TrimKeepsLongestSuffix ==
    TrimmedOverLimit =>
        /\ SuffixWithinLimit
        /\ Dropped # {}
        /\ TotalWords(tm.trimmed_context)
              + count_words(tm.context_list[NumDropped]) > tm.max_words

\* C27 witness: of three items of 2, 2 and 1 words the last two are kept,
\* filling the limit of 3.
C27_Witness ==
    /\ TrimmedOverLimit
    /\ tm.context_list = <<Item(1, 2), Item(2, 2), Item(3, 1)>>
    /\ tm.trimmed_context = <<Item(2, 2), Item(3, 1)>>

(***************************************************************************)
(*                    DETAILED REPORT: SUBTOPICS                           *)
(***************************************************************************)

\* Subtopics of one detailed report at most.
MaxSubtopics == 3

\* What the initial research of the run put in the global context.
InitialContext == 0

\* A subtopic's call of _get_subtopic_report.  stage: where the call is;
\* context, visited_urls: those of its subtopic_assistant; headers,
\* sections: the existing_headers and global_written_sections the call
\* worked with; report: what write_report returned.
PendingSubtopic ==
    [stage |-> "pending", context |-> {}, visited_urls |-> {},
     headers |-> <<>>, sections |-> {}, report |-> ""]

IdleDetailed ==
    [pc |-> "idle", subtopics |-> <<>>, existing_headers |-> <<>>,
     global_context |-> {}, global_written_sections |-> {},
     global_urls |-> {}, report_body |-> <<>>]

InitSubtopics == dsub = IdleDetailed

InProgressStages == {"research", "titles", "writing"}

\* run(): the initial research, then the subtopics are known.
generate_subtopic_reports(n) ==
    /\ dsub.pc = "idle"
    /\ dsub' = [IdleDetailed EXCEPT
                  !.pc = "subtopics",
                  !.global_context = {InitialContext},
                  !.subtopics = [i \in 1..n |-> PendingSubtopic]]

\* The mutant of LoopReaches: every subtopic's call is started at once.
LoopReachesAll(run, i) == TRUE

\* for subtopic in subtopics: result = await self._get_subtopic_report(..)
LoopReaches(run, i) ==
    \A j \in 1..(i - 1) : run.subtopics[j].stage = "folded"

\* _get_subtopic_report is called: the assistant is made with the global
\* URLs and a copy of the global context, and starts its research.
SubtopicStart(i) ==
    /\ dsub.pc = "subtopics"
    /\ i \in 1..Len(dsub.subtopics)
    /\ dsub.subtopics[i].stage = "pending"
    /\ LoopReaches(dsub, i)
    /\ dsub' = [dsub EXCEPT
                  !.subtopics[i] =
                      [@ EXCEPT !.stage = "research",
                                !.context = dsub.global_context,
                                !.visited_urls = dsub.global_urls]]

\* conduct_research returns: the assistant's context has grown, and it may
\* have visited a URL; the draft section titles are asked for.
SubtopicResearched(i, visited) ==
    /\ dsub.pc = "subtopics"
    /\ i \in 1..Len(dsub.subtopics)
    /\ dsub.subtopics[i].stage = "research"
    /\ dsub' = [dsub EXCEPT
                  !.subtopics[i] =
                      [@ EXCEPT !.stage = "titles",
                                !.context = @ \cup {i},
                                !.visited_urls =
                                    IF visited THEN @ \cup {i} ELSE @]]

\* The titles are back: the relevant written contents are looked up in
\* global_written_sections and write_report is called with
\* existing_headers.
SubtopicDrafted(i) ==
    /\ dsub.pc = "subtopics"
    /\ i \in 1..Len(dsub.subtopics)
    /\ dsub.subtopics[i].stage = "titles"
    /\ dsub' = [dsub EXCEPT
                  !.subtopics[i] =
                      [@ EXCEPT !.stage = "writing",
                                !.sections = dsub.global_written_sections,
                                !.headers = dsub.existing_headers]]

\* write_report returns: sections, context, URLs and headers are folded
\* into the shared state and the call returns; a report that is not empty
\* joins the body.
SubtopicWritten(i, report) ==
    /\ dsub.pc = "subtopics"
    /\ i \in 1..Len(dsub.subtopics)
    /\ dsub.subtopics[i].stage = "writing"
    /\ dsub' = [dsub EXCEPT
                  !.subtopics[i] = [@ EXCEPT !.stage = "folded",
                                             !.report = report],
                  !.global_written_sections =
                      IF report # "" THEN @ \cup {i} ELSE @,
                  !.global_context = dsub.subtopics[i].context,
                  !.global_urls = @ \cup dsub.subtopics[i].visited_urls,
                  !.existing_headers = Append(@, i),
                  !.report_body = IF report # "" THEN Append(@, i) ELSE @]

\* An await of the call raises: nothing in the loop or in run() catches it.
SubtopicRaises(i) ==
    /\ dsub.pc = "subtopics"
    /\ i \in 1..Len(dsub.subtopics)
    /\ dsub.subtopics[i].stage \in InProgressStages
    /\ dsub' = [dsub EXCEPT !.pc = "raised"]

\* The loop is over: the report is put together.
SubtopicsReturn ==
    /\ dsub.pc = "subtopics"
    /\ \A i \in 1..Len(dsub.subtopics) : dsub.subtopics[i].stage = "folded"
    /\ dsub' = [dsub EXCEPT !.pc = "returned"]

DetailedDone ==
    /\ dsub.pc \in {"returned", "raised"}
    /\ dsub' = IdleDetailed

\* The other subsystems stand still.
SubtopicFrame == UNCHANGED <<creditVars, trackerVars, researchVars,
    dispatchVars, writerVars, documentVars, chatVars, nestedVars, flowVars,
    retryVars, generateVars, deepVars, trimVars, storeVars, bridgeVars,
    userChatVars>>

NextSubtopics ==
    \/ \E n \in 0..MaxSubtopics : generate_subtopic_reports(n) /\ SubtopicFrame
    \/ \E i \in 1..MaxSubtopics : SubtopicStart(i) /\ SubtopicFrame
    \/ \E i \in 1..MaxSubtopics, visited \in BOOLEAN :
          SubtopicResearched(i, visited) /\ SubtopicFrame
    \/ \E i \in 1..MaxSubtopics : SubtopicDrafted(i) /\ SubtopicFrame
    \/ \E i \in 1..MaxSubtopics, report \in {"", "section"} :
          SubtopicWritten(i, report) /\ SubtopicFrame
    \/ \E i \in 1..MaxSubtopics : SubtopicRaises(i) /\ SubtopicFrame
    \/ SubtopicsReturn /\ SubtopicFrame
    \/ DetailedDone /\ SubtopicFrame

(***************************************************************************)
(*                 CLAIMS: DETAILED REPORT SUBTOPICS                       *)
(***************************************************************************)

\* The subtopic j has been written and folded into the shared state.
Folded(j) ==
    /\ dsub.subtopics[j].stage = "folded"
    /\ \E k \in 1..Len(dsub.existing_headers) : dsub.existing_headers[k] = j
    /\ dsub.subtopics[j].report # "" => j \in dsub.global_written_sections
    /\ j \in dsub.global_context
    /\ dsub.subtopics[j].visited_urls \subseteq dsub.global_urls

\* C28: in a detailed-report run the subtopics are processed strictly one
\* after the other: research and writing for a subtopic start only after
\* the previous subtopic's report has been written and its headers,
\* sections, context and URLs folded into the shared state, and no two
\* subtopic reports are in progress at once.
C28_SubtopicsSequential ==
    /\ Cardinality({i \in 1..Len(dsub.subtopics) :
                       dsub.subtopics[i].stage \in InProgressStages}) <= 1
    /\ \A i \in 1..Len(dsub.subtopics) :
          /\ dsub.subtopics[i].stage # "pending" =>
                /\ \A j \in 1..(i - 1) : Folded(j)
                /\ \A j \in 1..(i - 1) : j \in dsub.subtopics[i].context
          /\ dsub.subtopics[i].stage \in {"writing", "folded"} =>
                dsub.subtopics[i].headers = [j \in 1..(i - 1) |-> j]

\* C28 witness: the third subtopic is being written with the headers of the
\* first two, whose reports are folded in.
C28_Witness ==
    /\ dsub.pc = "subtopics"
    /\ Len(dsub.subtopics) = 3
    /\ dsub.subtopics[3].stage = "writing"
    /\ dsub.subtopics[3].headers = <<1, 2>>
    /\ dsub.subtopics[3].sections = {1}
    /\ dsub.global_urls = {2}

(***************************************************************************)
(*                             CHAT STORE                                  *)
(***************************************************************************)

\* The ids the database gives to new chats, each used once.
ChatIds == {"k1", "k2"}

Callers == {"alice", "bob"}

NoChat == "absent"

\* Messages of one chat at most.
MaxChatMessages == 2

\* The k-th message row of the chat.
MessageRow(chat_id, k) == [chat_id |-> chat_id, k |-> k]

IdleStoreCall ==
    [pc |-> "idle", chat_id |-> NoChat, chat |-> NoChat, result |-> <<>>,
     success |-> FALSE]

InitStore ==
    /\ chat_rows = [c \in ChatIds |-> NoChat]
    /\ chat_made_by = [c \in ChatIds |-> NoChat]
    /\ message_rows = [c \in ChatIds |-> 0]
    /\ cs = [u \in Callers |-> IdleStoreCall]

\* create_chat(user_id): one insert; the database picks an unused id.
create_chat(user_id, chat_id) ==
    /\ chat_made_by[chat_id] = NoChat
    /\ chat_rows' = [chat_rows EXCEPT ![chat_id] = user_id]
    /\ chat_made_by' = [chat_made_by EXCEPT ![chat_id] = user_id]
    /\ UNCHANGED <<message_rows, cs>>

\* create_message(chat_id, ...): one insert, of whatever chat id is given.
create_message(chat_id) ==
    /\ chat_rows[chat_id] # NoChat
    /\ message_rows[chat_id] < MaxChatMessages
    /\ message_rows' = [message_rows EXCEPT ![chat_id] = @ + 1]
    /\ UNCHANGED <<chat_rows, chat_made_by, cs>>

\* The mutant of get_chat: the row is selected by id alone.
get_chat_by_id(chat_id, user_id) == chat_rows[chat_id]

\* get_chat: select * from chats where id = chat_id and user_id = user_id;
\* the first row, or None.
get_chat(chat_id, user_id) ==
    IF chat_rows[chat_id] = user_id THEN chat_rows[chat_id] ELSE NoChat

\* get_chat_messages(chat_id, user_id): first the chat is looked up for the
\* caller.
get_chat_messages(user_id, chat_id) ==
    /\ cs[user_id].pc = "idle"
    /\ cs' = [cs EXCEPT ![user_id] =
          [IdleStoreCall EXCEPT !.pc = "verified", !.chat_id = chat_id,
                                !.chat = get_chat(chat_id, user_id)]]
    /\ UNCHANGED <<chat_rows, chat_made_by, message_rows>>

\* if not chat: return []; else the messages of the chat id are selected in
\* the order of created_at.
SelectMessages(user_id) ==
    /\ cs[user_id].pc = "verified"
    /\ LET chat_id == cs[user_id].chat_id
       IN  cs' = [cs EXCEPT ![user_id] =
              [@ EXCEPT !.pc = "returned",
                        !.result =
                            IF cs[user_id].chat = NoChat THEN <<>>
                            ELSE [k \in 1..message_rows[chat_id] |->
                                     MessageRow(chat_id, k)]]]
    /\ UNCHANGED <<chat_rows, chat_made_by, message_rows>>

\* delete_chat(chat_id, user_id): the messages of the chat id are deleted
\* first.
delete_chat(user_id, chat_id) ==
    /\ cs[user_id].pc = "idle"
    /\ message_rows' = [message_rows EXCEPT ![chat_id] = 0]
    /\ cs' = [cs EXCEPT ![user_id] =
          [IdleStoreCall EXCEPT !.pc = "deleting", !.chat_id = chat_id]]
    /\ UNCHANGED <<chat_rows, chat_made_by>>

\* Then the chat row with this id and this user_id; the call returns whether
\* a row was deleted, and the router answers 404 "Chat not found" if none.
DeleteChatRow(user_id) ==
    /\ cs[user_id].pc = "deleting"
    /\ LET chat_id == cs[user_id].chat_id
       IN  /\ chat_rows' = [chat_rows EXCEPT
                 ![chat_id] = IF @ = user_id THEN NoChat ELSE @]
           /\ cs' = [cs EXCEPT ![user_id].pc = "deleted",
                               ![user_id].success = (chat_rows[chat_id] = user_id)]
    /\ UNCHANGED <<chat_made_by, message_rows>>

\* The caller has the result.
StoreCallDone(user_id) ==
    /\ cs[user_id].pc \in {"returned", "deleted"}
    /\ cs' = [cs EXCEPT ![user_id] = IdleStoreCall]
    /\ UNCHANGED <<chat_rows, chat_made_by, message_rows>>

\* The other subsystems stand still.
StoreFrame == UNCHANGED <<creditVars, trackerVars, researchVars,
    dispatchVars, writerVars, documentVars, chatVars, nestedVars, flowVars,
    retryVars, generateVars, deepVars, trimVars, subtopicVars, bridgeVars,
    userChatVars>>

NextStore ==
    \/ \E u \in Callers, c \in ChatIds : create_chat(u, c) /\ StoreFrame
    \/ \E c \in ChatIds : create_message(c) /\ StoreFrame
    \/ \E u \in Callers, c \in ChatIds : get_chat_messages(u, c) /\ StoreFrame
    \/ \E u \in Callers : SelectMessages(u) /\ StoreFrame
    \/ \E u \in Callers, c \in ChatIds : delete_chat(u, c) /\ StoreFrame
    \/ \E u \in Callers : DeleteChatRow(u) /\ StoreFrame
    \/ \E u \in Callers : StoreCallDone(u) /\ StoreFrame

(***************************************************************************)
(*                         CLAIMS: CHAT STORE                              *)
(***************************************************************************)

\* get_chat_messages has returned to a caller who does not own the chat
\* asked for.
ReturnedToStranger(u) ==
    /\ cs[u].pc = "returned"
    /\ chat_made_by[cs[u].chat_id] # u

\* C29: for any chat and any caller who does not own it, get_chat_messages
\* returns an empty list, not an error, and never any message of that chat.
C29_NoMessagesForStrangers ==
    \A u \in Callers :
        /\ ReturnedToStranger(u) => cs[u].result = <<>>
        /\ cs[u].pc = "returned" =>
              \A k \in 1..Len(cs[u].result) :
                  cs[u].result[k].chat_id = cs[u].chat_id

\* C29 witness: bob asked for alice's chat, which holds messages, and got
\* the empty list, while alice got her messages.
C29_Witness ==
    /\ chat_rows["k1"] = "alice"
    /\ message_rows["k1"] = 2
    /\ cs["bob"].pc = "returned"
    /\ cs["bob"].chat_id = "k1"
    /\ cs["bob"].result = <<>>
    /\ cs["alice"].pc = "returned"
    /\ cs["alice"].result = <<MessageRow("k1", 1), MessageRow("k1", 2)>>

\* A delete_chat call by u is under way on a chat that exists and belongs to
\* someone else.
DeletesAsStranger(u, chat_id) == chat_rows[chat_id] \notin {u, NoChat}

\* C34: a delete_chat request by a user who does not own the chat changes
\* nothing: neither of its two deletes removes the chat or any of its
\* messages, and the caller is told the chat was not found.
C34_StrangerDeleteChangesNothing ==
    [][\A u \in Callers :
          /\ (/\ cs[u].pc = "idle"
              /\ cs'[u].pc = "deleting"
              /\ DeletesAsStranger(u, cs'[u].chat_id))
             => (message_rows' = message_rows /\ chat_rows' = chat_rows)
          /\ (/\ cs[u].pc = "deleting"
              /\ cs'[u].pc = "deleted"
              /\ DeletesAsStranger(u, cs[u].chat_id))
             => /\ message_rows' = message_rows
                /\ chat_rows' = chat_rows
                /\ ~ cs'[u].success]_vars

(***************************************************************************)
(*                       HTTP-REQUEST LOG BRIDGE                           *)
(* One WebSocketHTTPLogHandler per process (_http_log_handler), attached   *)
(* to the httpx logger.  emit() runs on whichever thread logs the request; *)
(* the sender loop is a task of the event loop.                            *)
(***************************************************************************)

\* self.websocket before any connection was bound.
NoSocket == "None"

\* Bound on the log records of one run of the model.
MaxRecords == 3

NoRecord == [id |-> 0, bound |-> NoSocket]

\* The event emit() queues for record number id; bound is the socket the
\* handler was bound to when the record was emitted.
LogData(id, websocket) == [id |-> id, bound |-> websocket]

\* setup_httpx_logging(): a handler without a socket, an empty queue and no
\* sender task.
InitBridge ==
    /\ bridge = [websocket |-> NoSocket, log_queue |-> <<>>,
                 sender_task |-> "none", log_data |-> NoRecord,
                 target |-> NoSocket]
    /\ delivered = [ws \in Sockets |-> <<>>]
    /\ socket_open = [ws \in Sockets |-> TRUE]
    /\ nRecords = 0

\* The sender task exists and has not finished.
SenderRunning(task) == task \in {"polling", "sleeping", "sending"}

\* _start_sender: asyncio.create_task(self._sender_loop()) when the calling
\* thread has a running event loop; otherwise nothing is started.
start_sender_task(task, loop_running) ==
    IF loop_running THEN "polling" ELSE task

\* set_websocket(websocket): rebinds the handler and starts a sender if
\* there has never been one (a finished task object is still truthy).
set_websocket(b, websocket) ==
    [b EXCEPT !.websocket = websocket,
              !.sender_task = IF @ = "none" THEN start_sender_task(@, TRUE)
                              ELSE @]

\* update_httpx_log_websocket(websocket), called by the coroutine serving
\* the connection.
update_httpx_log_websocket(ws) ==
    /\ socket_open[ws]
    /\ bridge.websocket # ws
    /\ bridge' = set_websocket(bridge, ws)
    /\ UNCHANGED <<delivered, socket_open, nRecords>>

\* emit: if not self._sender_task or self._sender_task.done()
RestartsSender(task) == task \in {"none", "done"}

\* emit(record): a record of another logger, below INFO or not matching the
\* request pattern is dropped, and so is any record while no socket is
\* bound; a matching one is queued and the sender started if none runs.
\* loop_running: the logging thread is the event loop's (a request made in
\* an executor thread logs from that thread, which has no event loop).
emit_record ==
    /\ nRecords < MaxRecords
    /\ \E matching \in BOOLEAN, loop_running \in BOOLEAN :
          bridge' =
             IF bridge.websocket = NoSocket \/ ~ matching THEN bridge
             ELSE [bridge EXCEPT
                     !.log_queue = Append(@, LogData(nRecords + 1, bridge.websocket)),
                     !.sender_task =
                         IF RestartsSender(@)
                         THEN start_sender_task(@, loop_running) ELSE @]
    /\ nRecords' = nRecords + 1
    /\ UNCHANGED <<delivered, socket_open>>

\* _sender_loop: get_nowait() returns the oldest event, which is given to
\* send_json of the socket bound at this moment.
SenderLoopGet ==
    /\ bridge.sender_task = "polling"
    /\ bridge.log_queue # <<>>
    /\ bridge' = [bridge EXCEPT !.log_queue = Tail(@),
                                !.log_data = Head(bridge.log_queue),
                                !.target = bridge.websocket,
                                !.sender_task = "sending"]
    /\ UNCHANGED <<delivered, socket_open, nRecords>>

\* except Empty: await asyncio.sleep(0.1), then the loop polls again.
SenderLoopSleep ==
    /\ \/ bridge.sender_task = "polling" /\ bridge.log_queue = <<>>
       \/ bridge.sender_task = "sleeping"
    /\ bridge' = [bridge EXCEPT !.sender_task =
                     IF @ = "polling" THEN "sleeping" ELSE "polling"]
    /\ UNCHANGED <<delivered, socket_open, nRecords>>

\* The except clauses of the loop body.
SenderClauses ==
    <<[class |-> "Empty", do |-> "sleep"], [class |-> "Exception", do |-> "break"]>>

\* The awaited send_json returns, or raises because the socket is closed:
\* the clause that catches it ends the loop and the event is dropped.
SenderLoopSent ==
    /\ bridge.sender_task = "sending"
    /\ IF socket_open[bridge.target]
       THEN /\ delivered' = [delivered EXCEPT ![bridge.target] =
                                Append(@, bridge.log_data)]
            /\ bridge' = [bridge EXCEPT !.sender_task = "polling",
                                        !.log_data = NoRecord,
                                        !.target = NoSocket]
       ELSE /\ delivered' = delivered
            /\ bridge' = [bridge EXCEPT
                  !.sender_task =
                      IF FirstMatch(SenderClauses, RuntimeError) = "break"
                      THEN "done" ELSE "raised",
                  !.log_data = NoRecord,
                  !.target = NoSocket]
    /\ UNCHANGED <<socket_open, nRecords>>

\* The client of a connection goes away.
BridgeSocketCloses(ws) ==
    /\ socket_open[ws]
    /\ socket_open' = [socket_open EXCEPT ![ws] = FALSE]
    /\ UNCHANGED <<bridge, delivered, nRecords>>

\* The other subsystems stand still.
BridgeFrame == UNCHANGED <<creditVars, trackerVars, researchVars,
    dispatchVars, writerVars, documentVars, chatVars, nestedVars, flowVars,
    retryVars, generateVars, deepVars, trimVars, subtopicVars, storeVars,
    userChatVars>>

NextBridge ==
    \/ \E ws \in Sockets : update_httpx_log_websocket(ws) /\ BridgeFrame
    \/ emit_record /\ BridgeFrame
    \/ SenderLoopGet /\ BridgeFrame
    \/ SenderLoopSleep /\ BridgeFrame
    \/ SenderLoopSent /\ BridgeFrame
    \/ \E ws \in Sockets : BridgeSocketCloses(ws) /\ BridgeFrame

(***************************************************************************)
(*                    CLAIMS: HTTP-REQUEST LOG BRIDGE                      *)
(***************************************************************************)

\* C35: a log event produced while one connection is bound to the bridge is
\* delivered only to that connection, never to a connection that is bound
\* afterwards or that runs research at the same time.
C35_LogEventsReachBoundSocketOnly ==
    \A ws \in Sockets :
        \A i \in 1..Len(delivered[ws]) : delivered[ws][i].bound = ws

\* emit() has just queued a matching record while a socket was bound.
Queued == Len(bridge'.log_queue) > Len(bridge.log_queue)

\* C40: whenever a matching HTTP-request record is emitted while a socket
\* is bound (and open) and no sender loop is running, a sender loop is (re)started, so
\* that the queued events are drained to the bound socket while it stays
\* open; an empty queue makes the loop sleep and retry, and a closed socket
\* makes it exit without raising.
C40_SenderRestartedOnEmit ==
    [][/\ (/\ Queued
            /\ socket_open[bridge.websocket]
            /\ ~ SenderRunning(bridge.sender_task))
            => SenderRunning(bridge'.sender_task)
       /\ (bridge.sender_task = "polling" /\ bridge.log_queue = <<>>
            /\ bridge'.sender_task # "polling")
            => bridge'.sender_task = "sleeping"
       /\ bridge'.sender_task # "raised"]_vars

(***************************************************************************)
(*                              USER CHAT                                  *)
(* _handle_user_chat and POST /chat run the same steps on one chat of the  *)
(* caller: read the history, save the user turn, gather PDF context,       *)
(* generate, save the assistant turn, answer.                              *)
(***************************************************************************)

\* Chat requests on the same chat that may be under way together.
ChatRequests == {"q1", "q2"}

\* The messages row a request writes for a role.
Turn(q, turn_role) == [request |-> q, role |-> turn_role]

IdleChatRequest ==
    [pc |-> "idle", existing_messages |-> 0, pdf_urls |-> FALSE,
     reply |-> "none"]

InitUserChat ==
    /\ turns = <<>>
    /\ uc = [q \in ChatRequests |-> IdleChatRequest]

\* The request is authenticated, has a message and names a chat of the
\* caller; get_chat_messages reads the history.  Without a message the
\* handler answers INVALID_MESSAGE, and CHAT_NOT_FOUND for a chat that is
\* not the caller's.
user_chat(q) ==
    /\ uc[q].pc = "idle"
    /\ \E early \in {"none", "INVALID_MESSAGE", "CHAT_NOT_FOUND", "IMAGE_ERROR"},
          pdf_urls \in BOOLEAN :
          uc' = [uc EXCEPT ![q] =
                   IF early # "none"
                   THEN [IdleChatRequest EXCEPT !.pc = "returned", !.reply = early]
                   ELSE [IdleChatRequest EXCEPT !.pc = "save_user",
                            !.existing_messages = Len(turns),
                            !.pdf_urls = pdf_urls]]
    /\ UNCHANGED turns

\* supabase_service.create_message(role="user", ...)
SaveUserMessage(q) ==
    /\ uc[q].pc = "save_user"
    /\ turns' = Append(turns, Turn(q, "user"))
    /\ uc' = [uc EXCEPT ![q].pc = IF uc[q].pdf_urls THEN "pdf" ELSE "generate"]

\* pdf_service.fetch_and_extract_text(pdf_urls), which may raise: the
\* handler answers PDF_ERROR and returns.
PdfContext(q) ==
    /\ uc[q].pc = "pdf"
    /\ \E raises \in BOOLEAN :
          uc' = [uc EXCEPT ![q] =
                   IF raises THEN [@ EXCEPT !.pc = "returned", !.reply = "PDF_ERROR"]
                   ELSE [@ EXCEPT !.pc = "generate"]]
    /\ UNCHANGED turns

\* openai_service.generate_response(...), which may raise: the handler
\* answers GENERATION_ERROR and returns.
GenerateResponse(q) ==
    /\ uc[q].pc = "generate"
    /\ \E raises \in BOOLEAN :
          uc' = [uc EXCEPT ![q] =
                   IF raises
                   THEN [@ EXCEPT !.pc = "returned", !.reply = "GENERATION_ERROR"]
                   ELSE [@ EXCEPT !.pc = "save_assistant"]]
    /\ UNCHANGED turns

\* supabase_service.create_message(role="assistant", ...)
SaveAssistantMessage(q) ==
    /\ uc[q].pc = "save_assistant"
    /\ turns' = Append(turns, Turn(q, "assistant"))
    /\ uc' = [uc EXCEPT ![q].pc = "send"]

\* The heading of a first message is generated (failures are swallowed) and
\* the reply is sent; a send that raises ends in the CHAT_ERROR clause.
SendResponse(q) ==
    /\ uc[q].pc = "send"
    /\ \E sent_ok \in BOOLEAN :
          uc' = [uc EXCEPT ![q].pc = "returned",
                           ![q].reply = IF sent_ok THEN "user_chat" ELSE "CHAT_ERROR"]
    /\ UNCHANGED turns

\* The other subsystems stand still.
UserChatFrame == UNCHANGED <<creditVars, trackerVars, researchVars,
    dispatchVars, writerVars, documentVars, chatVars, nestedVars, flowVars,
    retryVars, generateVars, deepVars, trimVars, subtopicVars, storeVars,
    bridgeVars>>

NextUserChat ==
    \E q \in ChatRequests :
        \/ user_chat(q) /\ UserChatFrame
        \/ SaveUserMessage(q) /\ UserChatFrame
        \/ PdfContext(q) /\ UserChatFrame
        \/ GenerateResponse(q) /\ UserChatFrame
        \/ SaveAssistantMessage(q) /\ UserChatFrame
        \/ SendResponse(q) /\ UserChatFrame

(***************************************************************************)
(*                           CLAIMS: USER CHAT                             *)
(***************************************************************************)

\* The roles of the rows request q has appended, in order.
RECURSIVE OwnTurns(_, _)
OwnTurns(q, n) ==
    IF n = 0 THEN <<>>
    ELSE IF turns[n].request = q THEN Append(OwnTurns(q, n - 1), turns[n].role)
    ELSE OwnTurns(q, n - 1)

\* C37: a chat request persists its two turns together: a request answered
\* with a reply has appended exactly the user turn followed by the assistant
\* turn, and a request that ends in an error (for example a generation or
\* PDF failure) leaves the chat's stored messages unchanged.
C37_TurnsPersistedTogether ==
    \A q \in ChatRequests :
        uc[q].pc = "returned" =>
            OwnTurns(q, Len(turns)) =
                IF uc[q].reply = "user_chat" THEN <<"user", "assistant">> ELSE <<>>

Init ==
    /\ InitCredit
    /\ InitTracker
    /\ InitResearch
    /\ InitDispatch
    /\ InitWriters
    /\ InitDocuments
    /\ InitChat
    /\ InitNested
    /\ InitFlow
    /\ InitRetry
    /\ InitGenerate
    /\ InitDeep
    /\ InitTrim
    /\ InitSubtopics
    /\ InitStore
    /\ InitBridge
    /\ InitUserChat

Next ==
    \/ NextCredit
    \/ NextTracker
    \/ NextResearch
    \/ NextDispatch
    \/ NextWriters
    \/ NextDocuments
    \/ NextChat
    \/ NextNested
    \/ NextFlow
    \/ NextRetry
    \/ NextGenerate
    \/ NextDeep
    \/ NextTrim
    \/ NextSubtopics
    \/ NextStore
    \/ NextBridge
    \/ NextUserChat

Spec == Init /\ [][Next]_vars

SpecCredit == Init /\ [][NextCredit]_vars

SpecTracker == Init /\ [][NextTracker]_vars

SpecResearch == Init /\ [][NextResearch]_vars

SpecDispatch == Init /\ [][NextDispatch]_vars

SpecWriters == Init /\ [][NextWriters]_vars

SpecDocuments == Init /\ [][NextDocuments]_vars

SpecChat == Init /\ [][NextChat]_vars

SpecNested == Init /\ [][NextNested]_vars

SpecFlow == Init /\ [][NextFlow]_vars

SpecRetry == Init /\ [][NextRetry]_vars /\ RetryFairness

SpecGenerate == Init /\ [][NextGenerate]_vars

SpecDeep == Init /\ [][NextDeep]_vars

SpecTrim == Init /\ [][NextTrim]_vars

SpecSubtopics == Init /\ [][NextSubtopics]_vars

SpecStore == Init /\ [][NextStore]_vars

SpecBridge == Init /\ [][NextBridge]_vars

SpecUserChat == Init /\ [][NextUserChat]_vars

====
